---- MODULE Spec2Model ----
(***************************************************************************)
(* A model of good_ass_pydantic_integrator: the GAPIClient repair loop     *)
(* (parse / _parse_and_validate / _update_model / rebuild_model /          *)
(* write_blank_model / remove_redundant_json_files) over the files of one  *)
(* model consumer, together with the schema accumulator (GAPI.builder),    *)
(* the model generation pipeline (GAPI.get_pydantic_model_content and      *)
(* GAPICustomizer.apply_customizations) and the validation and dump of     *)
(* the loaded response model.                                              *)
(***************************************************************************)
EXTENDS Integers, Sequences, FiniteSets, TLC

(***************************************************************************)
(* Bounds.                                                                 *)
(***************************************************************************)
\* Clock readings are 0..MaxClock: datetime.now(UTC) truncated to the
\* millisecond (gapi_client.py:302).  A sample file is named after the
\* reading at which it is saved.
MaxClock == 1

(***************************************************************************)
(* JSON data.  An object is a function from Keys to a value kind; "-" is   *)
(* an absent key.  Value kinds: "i" an integer (1), "s" a plain string,    *)
(* "n" a numeric string ("5"), "e" the empty list, "ls" a list of strings, *)
(* "o" a nested object with a property.  "c" is the integer 5 (what "5"    *)
(* becomes when an int field accepts it) and "null" is None; both occur in *)
(* instances only.                                                         *)
(***************************************************************************)
Keys == {"a", "b"}

Obj(va, vb) == [k \in Keys |-> IF k = "a" THEN va ELSE vb]

\* The payloads a consumer's endpoint hands to parse: one endpoint gives
\* scalars under "a" and "b", another gives a list under "a".
ScalarInputs == { Obj("-", "-"), Obj("i", "-"), Obj("s", "-"), Obj("n", "-"), Obj("-", "i") }

ListInputs == { Obj("-", "-"), Obj("e", "-"), Obj("ls", "-"), Obj("-", "i") }

Inputs == ScalarInputs \cup ListInputs

KeysOf(d) == {k \in Keys : d[k] # "-"}

\* json.dumps(data, indent=2) and json.loads of the text.
JsonDumps(d) == [indent |-> 2, doc |-> d]

JsonLoads(t) == t.doc

\* convert_input_data: leaf strings go through convert_value.  None of the
\* strings of Inputs parses as a timestamp, date, time, duration, address
\* or UUID (a numeric string stays a string), every other value passes
\* through, the keys are kept.
convert_input_data(d) == [k \in Keys |-> d[k]]

(***************************************************************************)
(* The schema accumulator (SchemaBuilder behind GAPI.builder).             *)
(* A node holds the scalar types seen, whether an array was seen, the      *)
(* types of the array items seen, whether a nested object was seen, and    *)
(* the order in which the array and the object strategy became active: a   *)
(* node lists its alternatives (anyOf) in that order.  The object strategy *)
(* keeps the set of required keys: unset until the first object or the     *)
(* first schema with a "required" entry, then intersected.                 *)
(***************************************************************************)
NoNode == [sc |-> {}, arr |-> FALSE, items |-> {}, obj |-> FALSE, order |-> <<>>]

NodeOf(v) ==
    CASE v = "i"  -> [NoNode EXCEPT !.sc = {"integer"}]
      [] v = "s"  -> [NoNode EXCEPT !.sc = {"string"}]
      [] v = "n"  -> [NoNode EXCEPT !.sc = {"string"}]
      [] v = "e"  -> [NoNode EXCEPT !.arr = TRUE, !.order = <<"array">>]
      [] v = "ls" -> [NoNode EXCEPT !.arr = TRUE, !.items = {"string"}, !.order = <<"array">>]
      [] v = "o"  -> [NoNode EXCEPT !.obj = TRUE, !.order = <<"object">>]
      [] OTHER    -> NoNode

\* The strategies of n become active after those of m, unless they already are.
MergeOrder(s, t) == s \o SelectSeq(t, LAMBDA x : \A j \in 1..Len(s) : s[j] # x)

\* A merge in which an array seen without items stays without items.
MergeNodeKeepsUntyped(m, n) ==
    [sc |-> m.sc \cup n.sc, arr |-> m.arr \/ n.arr,
     items |-> IF m.arr /\ m.items = {} THEN {} ELSE m.items \cup n.items,
     obj |-> m.obj \/ n.obj, order |-> MergeOrder(m.order, n.order)]

MergeNode(m, n) ==
    [sc |-> m.sc \cup n.sc, arr |-> m.arr \/ n.arr, items |-> m.items \cup n.items,
     obj |-> m.obj \/ n.obj, order |-> MergeOrder(m.order, n.order)]

\* SchemaNode.to_schema: the alternatives that are a bare {"type": ...} are
\* gathered in one sorted "type" list; the others (an array with items, an
\* object with properties) follow in the order they became active.
NodeSchema(n) ==
    [n EXCEPT !.order = SelectSeq(n.order, LAMBDA x : x = "object" \/ n.items # {})]

\* SchemaNode.add_schema: the strategies a schema node activates, in order:
\* the types of its "type" list first, then its other alternatives.
NodeFromSchema(n) ==
    [n EXCEPT !.order = MergeOrder(IF n.arr /\ n.items = {} THEN <<"array">> ELSE <<>>,
                                   n.order)]

\* SchemaBuilder(): nothing seen.
EmptyBuilder ==
    [obj |-> FALSE, props |-> [k \in Keys |-> NoNode],
     reqSet |-> FALSE, req |-> {}, incl |-> FALSE]

\* An add_object that takes the required keys from the first object only.
BuilderAddObjectKeepsFirstRequired(b, d) ==
    [obj |-> TRUE,
     props |-> [k \in Keys |-> MergeNode(b.props[k], NodeOf(d[k]))],
     reqSet |-> TRUE,
     req |-> IF b.reqSet THEN b.req ELSE KeysOf(d),
     incl |-> b.incl]

\* builder.add_object(data)
BuilderAddObject(b, d) ==
    [obj |-> TRUE,
     props |-> [k \in Keys |-> MergeNode(b.props[k], NodeOf(d[k]))],
     reqSet |-> TRUE,
     req |-> IF b.reqSet THEN b.req \cap KeysOf(d) ELSE KeysOf(d),
     incl |-> b.incl]

\* builder.to_json(): the schema document.  "required" is written only when
\* it is non-empty (or an empty "required" was read from a schema).
ToSchema(b) ==
    [obj |-> b.obj, props |-> [k \in Keys |-> NodeSchema(b.props[k])],
     hasReq |-> b.reqSet /\ (b.req # {} \/ b.incl),
     req |-> IF b.reqSet /\ (b.req # {} \/ b.incl) THEN b.req ELSE {}]

\* builder.add_schema(schema_dict)
BuilderAddSchema(b, doc) ==
    [obj |-> b.obj \/ doc.obj,
     props |-> [k \in Keys |-> MergeNode(b.props[k], NodeFromSchema(doc.props[k]))],
     reqSet |-> b.reqSet \/ doc.hasReq,
     req |-> IF ~doc.hasReq THEN b.req
             ELSE IF b.reqSet THEN b.req \cap doc.req ELSE doc.req,
     incl |-> b.incl \/ (doc.hasReq /\ doc.req = {})]

\* An equality that compares the properties and not the required keys.
BuilderEqPropertiesOnly(b1, b2) == ToSchema(b1).props = ToSchema(b2).props

\* SchemaBuilder.__eq__: equal iff the resulting schemas are equal.
BuilderEq(b1, b2) == ToSchema(b1) = ToSchema(b2)

\* GAPI.add_object_from_file .. add_object_from_dict (convert=True).
add_object_from_file(b, text) == BuilderAddObject(b, convert_input_data(JsonLoads(text)))

\* GAPI.write_json_schema_to_file / add_schema_from_file: the schema file
\* is the document plus a newline; json.loads gives the document back.
SchemaText(doc) == [doc |-> doc, nl |-> TRUE]

add_schema_from_file(b, text) == BuilderAddSchema(b, text.doc)

(***************************************************************************)
(* Model generation: datamodel_code_generator.generate on the schema       *)
(* document, then GAPICustomizer.apply_customizations, then the formatter. *)
(* A field annotation keeps the scalar types, the kind of list ("no", a    *)
(* "typed" list[...], the untyped list[Any], the list[None] sentinel), the *)
(* item types, whether a nested model class is among the types, and        *)
(* whether the field is optional (T | None = None).                        *)
(***************************************************************************)
ModelName == "SimpleGapiModel"

NoField == [present |-> FALSE, sc |-> {}, list |-> "no", items |-> {}, obj |-> FALSE,
            opt |-> FALSE]

Annotation(node, optional) ==
    [present |-> TRUE, sc |-> node.sc,
     list |-> IF ~node.arr THEN "no" ELSE IF node.items = {} THEN "Any" ELSE "typed",
     items |-> node.items, obj |-> node.obj, opt |-> optional]

\* datamodel_code_generator.generate(input_=schema, class_name=..,
\* extra_fields="forbid"): one field per property, required as the schema says.
generate(doc) ==
    [k \in Keys |-> IF doc.props[k] = NoNode THEN NoField
                    ELSE Annotation(doc.props[k], k \notin doc.req)]

\* GAPICustomizer._replace_untyped_lists
replace_untyped_lists(fields) ==
    [k \in Keys |-> IF fields[k].list = "Any"
                    THEN [fields[k] EXCEPT !.list = "None"]
                    ELSE fields[k]]

\* GAPICustomizer._apply_replacement_fields: the rules in order; a rule
\* naming an absent class or field raises ValueError.
RECURSIVE apply_replacement_fields(_, _)
apply_replacement_fields(rules, fields) ==
    IF rules = <<>> THEN [err |-> "", fields |-> fields]
    ELSE LET r == Head(rules) IN
         IF r.class_name # ModelName \/ ~fields[r.field_name].present
         THEN [err |-> "ValueError: not found", fields |-> fields]
         ELSE apply_replacement_fields(Tail(rules),
                  [fields EXCEPT ![r.field_name] = r.new_field])

\* GAPICustomizer.apply_customizations
apply_customizations(rules, fields) ==
    apply_replacement_fields(rules, replace_untyped_lists(fields))

\* The replacement "a: int" of a consumer's _replacement_fields().
IntField == [NoField EXCEPT !.present = TRUE, !.sc = {"integer"}]

\* The customizers a consumer may configure (GAPIClient._customizer).
Customizers ==
    { <<>>,
      <<[class_name |-> ModelName, field_name |-> "a", new_field |-> IntField]>> }

\* build_ruff_noqa_line and the header of BLANK_MODEL_TEMPLATE
GeneratedNoqa == "D100, D101, D102"

BlankNoqa == "D100, D101"

\* GAPI.get_pydantic_model_content for class ModelName: generate, customize,
\* format twice around the noqa line.  ruffOk is whether the external
\* formatter gives output; format_with_ruff raises RuntimeError otherwise.
get_pydantic_model_content(doc, rules, ruffOk) ==
    LET c == apply_customizations(rules, generate(doc)) IN
    IF c.err # "" THEN [err |-> c.err, content |-> <<>>]
    ELSE IF ~ruffOk THEN [err |-> "RuntimeError: ruff", content |-> <<>>]
    ELSE [err |-> "",
          content |-> <<[noqa |-> GeneratedNoqa, cls |-> ModelName, fields |-> c.fields]>>]

\* BLANK_MODEL_TEMPLATE.format(class_name=...)
BlankModel == [noqa |-> BlankNoqa, cls |-> ModelName, fields |-> [k \in Keys |-> NoField]]

\* The class a model source defines when it is imported.
LoadModel(file) == [cls |-> file.cls, fields |-> file.fields]

\* GAPIClient._reload_model: importlib.reload of the module of the model
\* file, then getattr(reloaded_module, name).
reload_model(file) == LoadModel(file)

(***************************************************************************)
(* Validation and dump of the loaded model (pydantic, lax mode).           *)
(***************************************************************************)
\* The validated value of v for a field, "!" when the field rejects it.
\* An int field takes a numeric string and turns it into the integer; a
\* union with str keeps the string.
Coerce(ann, v) ==
    CASE v = "i"  -> IF "integer" \in ann.sc THEN "i" ELSE "!"
      [] v = "s"  -> IF "string" \in ann.sc THEN "s" ELSE "!"
      [] v = "n"  -> IF "string" \in ann.sc THEN "n"
                     ELSE IF "integer" \in ann.sc THEN "c" ELSE "!"
      [] v = "e"  -> IF ann.list # "no" THEN "e" ELSE "!"
      [] v = "ls" -> IF ann.list = "Any" \/ (ann.list = "typed" /\ "string" \in ann.items)
                     THEN "ls" ELSE "!"
      [] v = "o"  -> IF ann.obj THEN "o" ELSE "!"
      [] OTHER    -> "!"

\* _response_model.model_validate(data): extra keys are forbidden, required
\* fields must be present, every value must fit its field.
model_validate(m, d) ==
    LET ok == /\ \A k \in KeysOf(d) : m.fields[k].present /\ Coerce(m.fields[k], d[k]) # "!"
              /\ \A k \in Keys : (m.fields[k].present /\ ~m.fields[k].opt) => d[k] # "-"
    IN [ok |-> ok,
        set |-> KeysOf(d),
        vals |-> [k \in Keys |-> IF d[k] = "-" THEN "null"
                                 ELSE IF m.fields[k].present THEN Coerce(m.fields[k], d[k])
                                 ELSE "!"]]

\* GAPIClient.dump_response: model_dump(mode="json", by_alias=True,
\* exclude_unset=True).
dump_response(inst) == [k \in Keys |-> IF k \in inst.set THEN inst.vals[k] ELSE "-"]

(***************************************************************************)
(* The generated source as the syntax tree ast.parse gives, and the        *)
(* rewriting GAPICustomizer does on it.  An annotation is an expression    *)
(* tree: a Name, the Constant None, a Subscript of a Name (list[...]) or   *)
(* a BinOp (the union X | Y).  A statement of the module or of a class     *)
(* body is an Import, a ClassDef, an AnnAssign with a Name target (a       *)
(* field: name, annotation, value), an Assign (model_config) or a          *)
(* FunctionDef (a serializer method).                                      *)
(***************************************************************************)
NoAnn == [op |-> "", id |-> "", args |-> <<>>]

Name(id) == [op |-> "Name", id |-> id, args |-> <<>>]

ConstantNone == [op |-> "Constant", id |-> "None", args |-> <<>>]

Subscript(id, slice) == [op |-> "Subscript", id |-> id, args |-> <<slice>>]

BitOr(l, r) == [op |-> "BinOp", id |-> "|", args |-> <<l, r>>]

Import(line) == [kind |-> "Import", name |-> line, ann |-> NoAnn, value |-> <<>>, body |-> <<>>]

AnnAssign(name, ann, value) ==
    [kind |-> "AnnAssign", name |-> name, ann |-> ann, value |-> value, body |-> <<>>]

Assign(name, value) ==
    [kind |-> "Assign", name |-> name, ann |-> NoAnn, value |-> value, body |-> <<>>]

ClassDef(name, body) ==
    [kind |-> "ClassDef", name |-> name, ann |-> NoAnn, value |-> <<>>, body |-> body]

\* CustomSerializer.create_serializer_ast: the method serialize_<field_name>
\* decorated with @field_serializer("<field_name>").
create_serializer_ast(r) ==
    << [kind |-> "FunctionDef", name |-> r.field_name, ann |-> NoAnn,
        value |-> <<r.input_type, r.output_type, r.serializer_code>>, body |-> <<>>] >>

\* ReplacementField.generate_field_ast: the statements of the new source.
generate_field_ast(r) == r.new_field

\* class_nodes = {node.name: node for node in tree.body if ClassDef}: the
\* place in the module body of the class of this name (the last one of the
\* name), 0 when there is none.
ClassNode(tree, name) ==
    LET at == { j \in DOMAIN tree : tree[j].kind = "ClassDef" /\ tree[j].name = name }
    IN IF at = {} THEN 0 ELSE CHOOSE j \in at : \A h \in at : h <= j

class_nodes(tree) ==
    { j \in DOMAIN tree : tree[j].kind = "ClassDef" /\ ClassNode(tree, tree[j].name) = j }

\* GAPICustomizer._is_field_node
is_field_node(node, field_name) == node.kind = "AnnAssign" /\ node.name = field_name

\* GAPICustomizer._has_field
has_field(class_node, field_name) ==
    \E j \in DOMAIN class_node.body : is_field_node(class_node.body[j], field_name)

\* GAPICustomizer._is_untyped_list
is_untyped_list(node) ==
    /\ node.op = "Subscript"
    /\ node.id \in {"list", "List"}
    /\ node.args[1].op = "Name" /\ node.args[1].id = "Any"

\* A repair that looks at the annotation itself and not inside it.
WalkAnnotationTopOnly(a) ==
    IF is_untyped_list(a) THEN [a EXCEPT !.args = <<ConstantNone>>] ELSE a

\* The loop over ast.walk(node.annotation) in _replace_untyped_lists: the
\* slice of every untyped list in the expression becomes Constant(None).
RECURSIVE WalkAnnotation(_)
WalkAnnotation(a) ==
    IF is_untyped_list(a) THEN [a EXCEPT !.args = <<ConstantNone>>]
    ELSE [a EXCEPT !.args = [j \in DOMAIN a.args |-> WalkAnnotation(a.args[j])]]

\* GAPICustomizer._replace_untyped_lists on the module body.
ReplaceUntypedLists(tree) ==
    [j \in DOMAIN tree |->
        IF j \in class_nodes(tree)
        THEN [tree[j] EXCEPT !.body =
                 [h \in DOMAIN tree[j].body |->
                     IF tree[j].body[h].kind = "AnnAssign"
                     THEN [tree[j].body[h] EXCEPT !.ann = WalkAnnotation(@)]
                     ELSE tree[j].body[h]]]
        ELSE tree[j]]

\* The place of the first statement of the body declaring the field, 0 when
\* none does (the for/else of _apply_replacement_fields).
FieldNode(body, field_name) ==
    LET at == { j \in DOMAIN body : is_field_node(body[j], field_name) }
    IN IF at = {} THEN 0 ELSE CHOOSE j \in at : \A h \in at : j <= h

\* A replacement that takes the statement out and puts the new statements
\* at the end of the body.
SpliceAtEnd(body, i, new) == SubSeq(body, 1, i - 1) \o SubSeq(body, i + 1, Len(body)) \o new

\* class_node.body[i : i + 1] = new
Splice(body, i, new) == SubSeq(body, 1, i - 1) \o new \o SubSeq(body, i + 1, Len(body))

\* GAPICustomizer._apply_replacement_fields: the rules in their order; the
\* first rule naming an absent class or field raises ValueError.
RECURSIVE ApplyReplacementFields(_, _)
ApplyReplacementFields(rules, tree) ==
    IF rules = <<>> THEN [err |-> "", tree |-> tree]
    ELSE LET r == Head(rules)
             c == ClassNode(tree, r.class_name)
             i == IF c = 0 THEN 0 ELSE FieldNode(tree[c].body, r.field_name)
         IN IF c = 0 THEN [err |-> "ValueError: class not found", tree |-> tree]
            ELSE IF i = 0 THEN [err |-> "ValueError: field not found", tree |-> tree]
            ELSE ApplyReplacementFields(Tail(rules),
                     [tree EXCEPT ![c].body = Splice(@, i, generate_field_ast(r))])

\* A type replacement that writes the declaration anew, as "name: type".
RECURSIVE ApplyReplacementTypesBare(_, _)
ApplyReplacementTypesBare(rules, tree) ==
    IF rules = <<>> THEN [err |-> "", tree |-> tree]
    ELSE LET r == Head(rules)
             c == ClassNode(tree, r.class_name)
             i == IF c = 0 THEN 0 ELSE FieldNode(tree[c].body, r.field_name)
         IN IF c = 0 THEN [err |-> "ValueError: class not found", tree |-> tree]
            ELSE IF i = 0 THEN [err |-> "ValueError: field not found", tree |-> tree]
            ELSE ApplyReplacementTypesBare(Tail(rules),
                     [tree EXCEPT ![c].body[i] = AnnAssign(r.field_name, r.new_type, <<>>)])

\* The type-replacement step: for each Replacement Type rule the field is
\* located as for a Replacement Field and the annotation alone is replaced.
RECURSIVE ApplyReplacementTypes(_, _)
ApplyReplacementTypes(rules, tree) ==
    IF rules = <<>> THEN [err |-> "", tree |-> tree]
    ELSE LET r == Head(rules)
             c == ClassNode(tree, r.class_name)
             i == IF c = 0 THEN 0 ELSE FieldNode(tree[c].body, r.field_name)
         IN IF c = 0 THEN [err |-> "ValueError: class not found", tree |-> tree]
            ELSE IF i = 0 THEN [err |-> "ValueError: field not found", tree |-> tree]
            ELSE ApplyReplacementTypes(Tail(rules),
                     [tree EXCEPT ![c].body[i].ann = r.new_type])

\* A serializer step that passes over a rule naming an absent class.
RECURSIVE ApplyCustomSerializersSkipsAbsent(_, _)
ApplyCustomSerializersSkipsAbsent(rules, tree) ==
    IF rules = <<>> THEN [err |-> "", tree |-> tree]
    ELSE LET r == Head(rules)
             c == ClassNode(tree, r.class_name)
         IN IF r.class_name # ""
            THEN IF c = 0 THEN ApplyCustomSerializersSkipsAbsent(Tail(rules), tree)
                 ELSE ApplyCustomSerializersSkipsAbsent(Tail(rules),
                          [tree EXCEPT ![c].body = @ \o create_serializer_ast(r)])
            ELSE ApplyCustomSerializersSkipsAbsent(Tail(rules),
                     [j \in DOMAIN tree |->
                         IF j \in class_nodes(tree) /\ has_field(tree[j], r.field_name)
                         THEN [tree[j] EXCEPT !.body = @ \o create_serializer_ast(r)]
                         ELSE tree[j]])

\* A serializer step in which a rule without class name extends every class.
RECURSIVE ApplyCustomSerializersToAll(_, _)
ApplyCustomSerializersToAll(rules, tree) ==
    IF rules = <<>> THEN [err |-> "", tree |-> tree]
    ELSE LET r == Head(rules)
             c == ClassNode(tree, r.class_name)
         IN IF r.class_name # ""
            THEN IF c = 0 THEN [err |-> "ValueError: class not found", tree |-> tree]
                 ELSE ApplyCustomSerializersToAll(Tail(rules),
                          [tree EXCEPT ![c].body = @ \o create_serializer_ast(r)])
            ELSE ApplyCustomSerializersToAll(Tail(rules),
                     [j \in DOMAIN tree |->
                         IF j \in class_nodes(tree)
                         THEN [tree[j] EXCEPT !.body = @ \o create_serializer_ast(r)]
                         ELSE tree[j]])

\* GAPICustomizer._apply_custom_serializers: a rule with a class name
\* extends the body of that class (ValueError when it is absent), a rule
\* without one the body of every class that has the field.
RECURSIVE ApplyCustomSerializers(_, _)
ApplyCustomSerializers(rules, tree) ==
    IF rules = <<>> THEN [err |-> "", tree |-> tree]
    ELSE LET r == Head(rules)
             c == ClassNode(tree, r.class_name)
         IN IF r.class_name # ""
            THEN IF c = 0 THEN [err |-> "ValueError: class not found", tree |-> tree]
                 ELSE ApplyCustomSerializers(Tail(rules),
                          [tree EXCEPT ![c].body = @ \o create_serializer_ast(r)])
            ELSE ApplyCustomSerializers(Tail(rules),
                     [j \in DOMAIN tree |->
                         IF j \in class_nodes(tree) /\ has_field(tree[j], r.field_name)
                         THEN [tree[j] EXCEPT !.body = @ \o create_serializer_ast(r)]
                         ELSE tree[j]])

\* The import of the decorator apply_customizations adds to the list.
SerializerImport == "from pydantic import field_serializer"

\* additional_imports = list(self.additional_imports), with the import of
\* the decorator appended when the customizer has serializer rules.
ImportList(c) ==
    c.additional_imports \o
        (IF c.custom_serializers # <<>> THEN <<SerializerImport>> ELSE <<>>)

\* An import step that inserts every line at the top of the module.
ApplyAdditionalImportsEachFirst(tree, imports) ==
    [j \in DOMAIN imports |-> Import(imports[Len(imports) + 1 - j])] \o tree

\* GAPICustomizer._apply_additional_imports: tree.body.insert(i, line i).
ApplyAdditionalImports(tree, imports) ==
    [j \in DOMAIN imports |-> Import(imports[j])] \o tree

\* GAPICustomizer.apply_customizations on the tree of a source, for the
\* customizer c: the repair of the untyped lists, the field replacements,
\* the type replacements, the serializers, the imports; err is the error of
\* the first step that raises, and then no text is returned.
ApplyCustomizations(c, tree) ==
    LET f == ApplyReplacementFields(c.replacement_fields, ReplaceUntypedLists(tree))
        t == IF f.err # "" THEN f ELSE ApplyReplacementTypes(c.replacement_types, f.tree)
        s == IF t.err # "" THEN t ELSE ApplyCustomSerializers(c.custom_serializers, t.tree)
    IN IF s.err # "" THEN [err |-> s.err, tree |-> <<>>]
       ELSE [err |-> "", tree |-> ApplyAdditionalImports(s.tree, ImportList(c))]

(***************************************************************************)
(* The state of one model consumer (a GAPIClient subclass) and its files.  *)
(***************************************************************************)
VARIABLES
    endpoint,     \* the payloads this consumer is given, fixed
    customizer,   \* cls._customizer(): the consumer's rules, fixed
    clock,        \* the reading datetime.now(UTC) gives, in milliseconds
    files,        \* json_files_folder(): file name (a clock reading) -> text
    schemaFile,   \* _get_schema_path(): <<>> when absent, else <<text>>
    modelFile,    \* _get_model_path(): the model source
    loaded,       \* cls._response_model: the class currently loaded
    debugFiles,   \* _files/_temp/<folder>: <<>> or <<[original, parsed]>>
    pc,           \* where the running call stands; "idle" between calls
    call,         \* the running (or last) parse call: arguments, locals, outcome
    prune,        \* the locals of remove_redundant_json_files
    gapi,         \* a GAPI object of its own, with the calls made on it
    cz,           \* a GAPICustomizer of its own and the source it is applied to
    conv,         \* a call of convert_value or convert_input_data of its own
    duo,          \* two consumers of one process and the files of both
    race          \* two callers of parse on the consumer at the same time

vars == <<endpoint, customizer, clock, files, schemaFile, modelFile, loaded, debugFiles,
          pc, call, prune, gapi, cz, conv, duo, race>>

NoInstance == [ok |-> FALSE, set |-> {}, vals |-> [k \in Keys |-> "null"]]

\* The record of a call.  op is the public method called; out is "running",
\* "returned" or the error raised.  For parse: validations counts the
\* model_validate calls, rebuilds the _update_model calls, reloads the
\* _reload_model calls, saved lists the names _save_new_json_file wrote,
\* first is the result of the first validation, atCount the number of sample
\* files the call found, atBlank whether it found the blank model and no
\* schema file.  The record lasts until the caller has the result.
NoCall ==
    [op |-> "none", data |-> Obj("-", "-"), update_model |-> FALSE, out |-> "none",
     parsed |-> NoInstance, new_file |-> <<>>,
     validations |-> 0, rebuilds |-> 0, reloads |-> 0, saved |-> <<>>, first |-> FALSE,
     atCount |-> 0, atBlank |-> FALSE]

\* atFiles is the directory as the call found it, iterations counts the
\* passes of the loop.
NoPrune == [input_files |-> <<>>, complete_schema |-> EmptyBuilder, i |-> 0,
            atFiles |-> <<>>, iterations |-> 0]

\* GAPI.__init__: an empty builder and no cached content.  at is the place
\* the running get_pydantic_model_content has reached ("idle" between
\* calls) and content its local variable; log lists the calls made on the
\* object, steps the functions the last get_pydantic_model_content invoked,
\* ret what the last call returned or raised, got what the get_* calls have
\* returned since the last add_* call, ruff what the external formatter did
\* the last time format_with_ruff ran it.
NewGAPI ==
    [builder |-> EmptyBuilder, cached_json_schema |-> <<>>, cached_pydantic_model |-> <<>>,
     at |-> "idle", content |-> <<>>,
     log |-> <<>>, steps |-> <<>>,
     ret |-> [op |-> "none", schema |-> <<>>, model |-> <<>>, err |-> ""],
     got |-> [schema |-> <<>>, model |-> <<>>],
     ruff |-> ""]

\* GAPICustomizer.__init__ (no rules) and the apply_customizations call made
\* on it: source is the generated text given to the call, tree the syntax
\* tree being rewritten, at the place the call has reached ("building"
\* while the rules are registered, before the call), steps the private
\* methods invoked so far, registered the kinds of the rules in the order
\* of their registration, err the error raised, out the text returned.
NewCustomization ==
    [replacement_fields |-> <<>>, replacement_types |-> <<>>,
     custom_serializers |-> <<>>, additional_imports |-> <<>>,
     registered |-> <<>>,
     source |-> <<>>, tree |-> <<>>, at |-> "building", steps |-> <<>>,
     err |-> "", out |-> <<>>]

\* No call of convert.py made: arg is the argument of the call to come, op
\* the function called and result what it returned.
NoConversion == [arg |-> <<>>, op |-> "none", result |-> <<>>]

\* No access to the files: who is the consumer that made the last call, op
\* the call, and read, written and deleted the paths the call touched.
NoAccess == [who |-> 0, op |-> "none", read |-> {}, written |-> {}, deleted |-> {}]

\* No consumers: fs is the set of files and clock the number of calls
\* made, which is also the reading of the clock.
NoDuo == [consumers |-> <<>>, fs |-> {}, clock |-> 0, acc |-> NoAccess]

\* A caller that has not called parse: at is the place the call has
\* reached, data its argument, new_file the name of the sample it saved,
\* builder the accumulator of its _update_model and out its outcome.
NoThread ==
    [at |-> "idle", data |-> Obj("-", "-"), new_file |-> <<>>, builder |-> EmptyBuilder,
     out |-> "none"]

Threads == {1, 2}

NoRace == [t \in Threads |-> NoThread]

\* A consumer whose model file is the blank template, with no schema file
\* and no sample (the state write_blank_model leaves on a new consumer).
Init ==
    /\ endpoint \in {ScalarInputs, ListInputs}
    /\ customizer \in Customizers
    /\ clock = 0
    /\ files = <<>>
    /\ schemaFile = <<>>
    /\ modelFile = BlankModel
    /\ loaded = LoadModel(BlankModel)
    /\ debugFiles = <<>>
    /\ pc = "idle"
    /\ call = NoCall
    /\ prune = NoPrune
    /\ gapi = NewGAPI
    /\ cz = NewCustomization
    /\ conv = NoConversion
    /\ duo = NoDuo
    /\ race = NoRace

\* Time passes: the next reading of the clock is later.
Tick ==
    /\ clock < MaxClock
    /\ clock' = clock + 1
    /\ UNCHANGED <<race, duo, conv, cz, gapi, endpoint, customizer, files, schemaFile,
                   modelFile, loaded, debugFiles,
                   pc, call, prune>>

\* GAPIClient._save_new_json_file: the directory after writing data under
\* the name of the current reading (write_text replaces an existing file).
save_new_json_file(fs, now, d) ==
    [n \in (DOMAIN fs) \cup {now} |-> IF n = now THEN JsonDumps(d) ELSE fs[n]]

\* GAPIClient.json_files: the names in ascending order.
RECURSIVE SortedSeq(_)
SortedSeq(S) ==
    IF S = {} THEN <<>>
    ELSE LET m == CHOOSE x \in S : \A y \in S : x <= y
         IN <<m>> \o SortedSeq(S \ {m})

json_files(fs) == SortedSeq(DOMAIN fs)

\* add_object_from_file for each file of a list, in order.
RECURSIVE add_files(_, _, _)
add_files(b, names, fs) ==
    IF names = <<>> THEN b
    ELSE add_files(add_object_from_file(b, fs[Head(names)]), Tail(names), fs)

\* GAPI.add_objects_from_folder: every file, sorted by name.
add_objects_from_folder(b, fs) == add_files(b, json_files(fs), fs)

(***************************************************************************)
(* GAPIClient.parse -> _parse_and_validate, step by step.                  *)
(***************************************************************************)
Snapshot(c) ==
    [c EXCEPT !.atCount = Cardinality(DOMAIN files),
              !.atBlank = (modelFile = BlankModel /\ schemaFile = <<>>)]

\* A parse that ignores update_model and always enters the repair loop.
ParseCallAlwaysRepairs(d, um) ==
    /\ pc = "idle"
    /\ LET v == model_validate(loaded, d) IN
       /\ call' = [Snapshot(NoCall) EXCEPT
                     !.op = "parse", !.data = d, !.update_model = um,
                     !.validations = 1, !.first = v.ok,
                     !.parsed = IF v.ok THEN v ELSE NoInstance,
                     !.out = "running"]
       /\ pc' = IF v.ok THEN "check" ELSE "save"
    /\ UNCHANGED <<race, duo, conv, cz, gapi, endpoint, customizer, clock, files,
                   schemaFile, modelFile, loaded,
                   debugFiles, prune>>

\* parse(data, update_model=um) up to the end of the first validation
\* (gapi_client.py:160-163 and 242-247).  Without update_model the result
\* of model_validate is the result of the call.
ParseCall(d, um) ==
    /\ pc = "idle"
    /\ LET v == model_validate(loaded, d) IN
       /\ call' = [Snapshot(NoCall) EXCEPT
                     !.op = "parse", !.data = d, !.update_model = um,
                     !.validations = 1, !.first = v.ok,
                     !.parsed = IF v.ok THEN v ELSE NoInstance,
                     !.out = IF um THEN "running"
                             ELSE IF v.ok THEN "returned" ELSE "ValidationError"]
       /\ pc' = IF ~um THEN "done" ELSE IF v.ok THEN "check" ELSE "save"
    /\ UNCHANGED <<race, duo, conv, cz, gapi, endpoint, customizer, clock, files,
                   schemaFile, modelFile, loaded,
                   debugFiles, prune>>

\* new_file = cls._save_new_json_file(data)   (gapi_client.py:248)
SaveSample ==
    /\ pc = "save"
    /\ files' = save_new_json_file(files, clock, call.data)
    /\ call' = [call EXCEPT !.new_file = <<clock>>, !.saved = Append(@, clock)]
    /\ pc' = "update"
    /\ UNCHANGED <<race, duo, conv, cz, gapi, endpoint, customizer, clock, schemaFile,
                   modelFile, loaded, debugFiles, prune>>

\* An _update_model that does not read the existing schema file.
UpdateModelFromSampleAlone(ruffOk) ==
    /\ pc = "update"
    /\ LET builder == add_object_from_file(EmptyBuilder, files[call.new_file[1]])
           doc == ToSchema(builder)
           m == get_pydantic_model_content(doc, customizer, ruffOk)
       IN /\ schemaFile' = <<SchemaText(doc)>>
          /\ IF m.err # ""
             THEN /\ UNCHANGED <<modelFile, loaded>>
                  /\ call' = [call EXCEPT !.rebuilds = @ + 1, !.out = m.err]
                  /\ pc' = "done"
             ELSE /\ modelFile' = m.content[1]
                  /\ loaded' = reload_model(m.content[1])
                  /\ call' = [call EXCEPT !.rebuilds = @ + 1, !.reloads = @ + 1]
                  /\ pc' = "retry"
    /\ UNCHANGED <<race, duo, conv, cz, gapi, endpoint, customizer, clock, files,
                   debugFiles, prune>>

\* An _update_model that writes both files and does not reload the model.
UpdateModelNoReload(ruffOk) ==
    /\ pc = "update"
    /\ LET seeded == IF schemaFile # <<>>
                     THEN add_schema_from_file(EmptyBuilder, schemaFile[1])
                     ELSE EmptyBuilder
           builder == add_object_from_file(seeded, files[call.new_file[1]])
           doc == ToSchema(builder)
           m == get_pydantic_model_content(doc, customizer, ruffOk)
       IN /\ schemaFile' = <<SchemaText(doc)>>
          /\ IF m.err # ""
             THEN /\ UNCHANGED modelFile
                  /\ call' = [call EXCEPT !.rebuilds = @ + 1, !.out = m.err]
                  /\ pc' = "done"
             ELSE /\ modelFile' = m.content[1]
                  /\ call' = [call EXCEPT !.rebuilds = @ + 1, !.reloads = @ + 1]
                  /\ pc' = "retry"
    /\ UNCHANGED <<race, duo, conv, cz, gapi, endpoint, customizer, clock, files, loaded,
                   debugFiles, prune>>

\* cls._update_model(new_file)   (gapi_client.py:249, 265-279): a fresh
\* GAPI, the schema file when there is one, the new file, then the schema
\* file, the model file and the reload.  An error of the customizer or of
\* the formatter leaves get_pydantic_model_content after the schema file was
\* written and ends the call.
UpdateModel(ruffOk) ==
    /\ pc = "update"
    /\ LET seeded == IF schemaFile # <<>>
                     THEN add_schema_from_file(EmptyBuilder, schemaFile[1])
                     ELSE EmptyBuilder
           builder == add_object_from_file(seeded, files[call.new_file[1]])
           doc == ToSchema(builder)
           m == get_pydantic_model_content(doc, customizer, ruffOk)
       IN /\ schemaFile' = <<SchemaText(doc)>>
          /\ IF m.err # ""
             THEN /\ UNCHANGED <<modelFile, loaded>>
                  /\ call' = [call EXCEPT !.rebuilds = @ + 1, !.out = m.err]
                  /\ pc' = "done"
             ELSE /\ modelFile' = m.content[1]
                  /\ loaded' = reload_model(m.content[1])
                  /\ call' = [call EXCEPT !.rebuilds = @ + 1, !.reloads = @ + 1]
                  /\ pc' = "retry"
    /\ UNCHANGED <<race, duo, conv, cz, gapi, endpoint, customizer, clock, files,
                   debugFiles, prune>>

\* A retry that, when the second validation fails, saves and rebuilds again.
RetryRebuildsAgain ==
    /\ pc = "retry"
    /\ LET v == model_validate(loaded, call.data) IN
       /\ call' = [call EXCEPT !.validations = @ + 1,
                               !.parsed = IF v.ok THEN v ELSE NoInstance]
       /\ pc' = IF v.ok THEN "check" ELSE "save"
    /\ UNCHANGED <<race, duo, conv, cz, gapi, endpoint, customizer, clock, files,
                   schemaFile, modelFile, loaded,
                   debugFiles, prune>>

\* The second model_validate (gapi_client.py:253): its ValidationError is
\* not caught.
Retry ==
    /\ pc = "retry"
    /\ LET v == model_validate(loaded, call.data) IN
       /\ call' = [call EXCEPT !.validations = @ + 1,
                               !.parsed = IF v.ok THEN v ELSE NoInstance,
                               !.out = IF v.ok THEN "running" ELSE "ValidationError"]
       /\ pc' = IF v.ok THEN "check" ELSE "done"
    /\ UNCHANGED <<race, duo, conv, cz, gapi, endpoint, customizer, clock, files,
                   schemaFile, modelFile, loaded,
                   debugFiles, prune>>

\* A check that returns the instance without comparing the dump.
CheckNoCompare ==
    /\ pc = "check"
    /\ call' = [call EXCEPT !.out = "returned"]
    /\ pc' = "done"
    /\ UNCHANGED <<race, duo, conv, cz, gapi, endpoint, customizer, clock, files,
                   schemaFile, modelFile, loaded,
                   debugFiles, prune>>

\* A check that treats a mismatch like a failed validation: save and rebuild.
CheckRebuildsOnMismatch ==
    /\ pc = "check"
    /\ LET dumped == dump_response(call.parsed) IN
       IF dumped # call.data
       THEN /\ call' = call
            /\ pc' = "save"
       ELSE /\ call' = [call EXCEPT !.out = "returned"]
            /\ pc' = "done"
    /\ UNCHANGED <<race, duo, conv, cz, gapi, endpoint, customizer, clock, files,
                   schemaFile, modelFile, loaded,
                   debugFiles, prune>>

\* A check that saves the data as a sample whether or not the dump matches.
CheckAlwaysSaves ==
    /\ pc = "check"
    /\ LET dumped == dump_response(call.parsed) IN
       /\ files' = save_new_json_file(files, clock, call.data)
       /\ IF dumped # call.data
          THEN /\ debugFiles' = <<[original |-> JsonDumps(call.data),
                                   parsed |-> JsonDumps(dumped)]>>
               /\ call' = [call EXCEPT !.saved = Append(@, clock),
                                       !.out = "ValueError: mismatch"]
          ELSE /\ UNCHANGED debugFiles
               /\ call' = [call EXCEPT !.saved = Append(@, clock), !.out = "returned"]
    /\ pc' = "done"
    /\ UNCHANGED <<race, duo, conv, cz, gapi, endpoint, customizer, clock, schemaFile,
                   modelFile, loaded, prune>>

\* The comparison of the dump with the input (gapi_client.py:257-263); on a
\* mismatch _save_debug_files (309-318) saves the data as a sample again and
\* writes original.json and parsed.json, and ValueError is raised.
Check ==
    /\ pc = "check"
    /\ LET dumped == dump_response(call.parsed) IN
       IF dumped # call.data
       THEN /\ files' = save_new_json_file(files, clock, call.data)
            /\ debugFiles' = <<[original |-> JsonDumps(call.data),
                                parsed |-> JsonDumps(dumped)]>>
            /\ call' = [call EXCEPT !.saved = Append(@, clock),
                                    !.out = "ValueError: mismatch"]
       ELSE /\ UNCHANGED <<files, debugFiles>>
            /\ call' = [call EXCEPT !.out = "returned"]
    /\ pc' = "done"
    /\ UNCHANGED <<race, duo, conv, cz, gapi, endpoint, customizer, clock, schemaFile,
                   modelFile, loaded, prune>>

(***************************************************************************)
(* GAPIClient.rebuild_model and write_blank_model.                         *)
(***************************************************************************)
\* A write_blank_model that leaves the schema file in place.
WriteBlankModelKeepsSchema ==
    /\ pc = "idle"
    /\ modelFile' = BlankModel
    /\ loaded' = reload_model(BlankModel)
    /\ call' = [Snapshot(NoCall) EXCEPT !.op = "write_blank_model", !.out = "returned",
                                        !.reloads = 1]
    /\ pc' = "done"
    /\ UNCHANGED <<race, duo, conv, cz, gapi, endpoint, customizer, clock, files,
                   schemaFile, debugFiles, prune>>

\* write_blank_model (gapi_client.py:184-199)
WriteBlankModel ==
    /\ pc = "idle"
    /\ modelFile' = BlankModel
    /\ schemaFile' = <<>>
    /\ loaded' = reload_model(BlankModel)
    /\ call' = [Snapshot(NoCall) EXCEPT !.op = "write_blank_model", !.out = "returned",
                                        !.reloads = 1]
    /\ pc' = "done"
    /\ UNCHANGED <<race, duo, conv, cz, gapi, endpoint, customizer, clock, files,
                   debugFiles, prune>>

\* A rebuild_model that starts from the schema file when there is one.
RebuildModelSeeded(ruffOk) ==
    /\ pc = "idle"
    /\ IF json_files(files) # <<>>
       THEN LET seeded == IF schemaFile # <<>>
                          THEN add_schema_from_file(EmptyBuilder, schemaFile[1])
                          ELSE EmptyBuilder
                builder == add_objects_from_folder(seeded, files)
                doc == ToSchema(builder)
                m == get_pydantic_model_content(doc, customizer, ruffOk)
            IN /\ schemaFile' = <<SchemaText(doc)>>
               /\ IF m.err # ""
                  THEN /\ UNCHANGED <<modelFile, loaded>>
                       /\ call' = [Snapshot(NoCall) EXCEPT !.op = "rebuild_model",
                                       !.out = m.err, !.rebuilds = 1]
                  ELSE /\ modelFile' = m.content[1]
                       /\ loaded' = reload_model(m.content[1])
                       /\ call' = [Snapshot(NoCall) EXCEPT !.op = "rebuild_model",
                                       !.out = "returned", !.rebuilds = 1, !.reloads = 1]
       ELSE /\ modelFile' = BlankModel
            /\ schemaFile' = <<>>
            /\ loaded' = reload_model(BlankModel)
            /\ call' = [Snapshot(NoCall) EXCEPT !.op = "rebuild_model",
                            !.out = "returned", !.reloads = 2]
    /\ pc' = "done"
    /\ UNCHANGED <<race, duo, conv, cz, gapi, endpoint, customizer, clock, files,
                   debugFiles, prune>>

\* rebuild_model (gapi_client.py:165-182)
RebuildModel(ruffOk) ==
    /\ pc = "idle"
    /\ IF json_files(files) # <<>>
       THEN LET builder == add_objects_from_folder(EmptyBuilder, files)
                doc == ToSchema(builder)
                m == get_pydantic_model_content(doc, customizer, ruffOk)
            IN /\ schemaFile' = <<SchemaText(doc)>>
               /\ IF m.err # ""
                  THEN /\ UNCHANGED <<modelFile, loaded>>
                       /\ call' = [Snapshot(NoCall) EXCEPT !.op = "rebuild_model",
                                       !.out = m.err, !.rebuilds = 1]
                  ELSE /\ modelFile' = m.content[1]
                       /\ loaded' = reload_model(m.content[1])
                       /\ call' = [Snapshot(NoCall) EXCEPT !.op = "rebuild_model",
                                       !.out = "returned", !.rebuilds = 1, !.reloads = 1]
       ELSE /\ modelFile' = BlankModel
            /\ schemaFile' = <<>>
            /\ loaded' = reload_model(BlankModel)
            /\ call' = [Snapshot(NoCall) EXCEPT !.op = "rebuild_model",
                            !.out = "returned", !.reloads = 2]
    /\ pc' = "done"
    /\ UNCHANGED <<race, duo, conv, cz, gapi, endpoint, customizer, clock, files,
                   debugFiles, prune>>

(***************************************************************************)
(* GAPIClient.remove_redundant_json_files, one loop iteration per step.    *)
(***************************************************************************)
\* A list left in ascending order: oldest first.
NoReverse(s) == s

\* reversed(list): newest first.
RECURSIVE Reverse(_)
Reverse(s) == IF s = <<>> THEN s ELSE Append(Reverse(Tail(s)), Head(s))

\* input_files[:i] + input_files[i + 1:]   (i counted from 0)
Without(s, i) == [j \in 1..(Len(s) - 1) |-> IF j <= i THEN s[j] ELSE s[j + 1]]

\* gapi_client.py:204-215: the list, the complete schema, i = 0
PruneStart ==
    /\ pc = "idle"
    /\ LET input == Reverse(json_files(files)) IN
       prune' = [input_files |-> input,
                 complete_schema |-> add_files(EmptyBuilder, input, files),
                 i |-> 0, atFiles |-> files, iterations |-> 0]
    /\ call' = [Snapshot(NoCall) EXCEPT !.op = "remove_redundant_json_files",
                                        !.out = "running"]
    /\ pc' = "prune"
    /\ UNCHANGED <<race, duo, conv, cz, gapi, endpoint, customizer, clock, files,
                   schemaFile, modelFile, loaded, debugFiles>>

\* An iteration that advances the index after a deletion as well.
PruneStepAlwaysAdvances ==
    /\ pc = "prune"
    /\ prune.i < Len(prune.input_files)
    /\ LET test_files == Without(prune.input_files, prune.i)
           test_gapi == add_files(EmptyBuilder, test_files, files)
           name == prune.input_files[prune.i + 1]
       IN IF BuilderEq(test_gapi, prune.complete_schema)
          THEN /\ files' = [n \in (DOMAIN files) \ {name} |-> files[n]]
               /\ prune' = [prune EXCEPT !.input_files = test_files, !.i = @ + 1,
                                         !.iterations = @ + 1]
          ELSE /\ prune' = [prune EXCEPT !.i = @ + 1, !.iterations = @ + 1]
               /\ UNCHANGED files
    /\ UNCHANGED <<race, duo, conv, cz, gapi, endpoint, customizer, clock, schemaFile,
                   modelFile, loaded, debugFiles, pc, call>>

\* An iteration that, when it deletes a file, writes the schema merged from
\* the files left to the schema file.
PruneStepWritesSchema ==
    /\ pc = "prune"
    /\ prune.i < Len(prune.input_files)
    /\ LET test_files == Without(prune.input_files, prune.i)
           test_gapi == add_files(EmptyBuilder, test_files, files)
           name == prune.input_files[prune.i + 1]
       IN IF BuilderEq(test_gapi, prune.complete_schema)
          THEN /\ files' = [n \in (DOMAIN files) \ {name} |-> files[n]]
               /\ schemaFile' = <<SchemaText(ToSchema(test_gapi))>>
               /\ prune' = [prune EXCEPT !.input_files = test_files,
                                         !.iterations = @ + 1]
          ELSE /\ prune' = [prune EXCEPT !.i = @ + 1, !.iterations = @ + 1]
               /\ UNCHANGED <<files, schemaFile>>
    /\ UNCHANGED <<race, duo, conv, cz, gapi, endpoint, customizer, clock, modelFile,
                   loaded, debugFiles, pc, call>>

\* One iteration of the while loop (gapi_client.py:216-226).
PruneStep ==
    /\ pc = "prune"
    /\ prune.i < Len(prune.input_files)
    /\ LET test_files == Without(prune.input_files, prune.i)
           test_gapi == add_files(EmptyBuilder, test_files, files)
           name == prune.input_files[prune.i + 1]
       IN IF BuilderEq(test_gapi, prune.complete_schema)
          THEN /\ files' = [n \in (DOMAIN files) \ {name} |-> files[n]]
               /\ prune' = [prune EXCEPT !.input_files = test_files,
                                         !.iterations = @ + 1]
          ELSE /\ prune' = [prune EXCEPT !.i = @ + 1, !.iterations = @ + 1]
               /\ UNCHANGED files
    /\ UNCHANGED <<race, duo, conv, cz, gapi, endpoint, customizer, clock, schemaFile,
                   modelFile, loaded, debugFiles, pc, call>>

\* The loop condition fails: the method returns.
PruneEnd ==
    /\ pc = "prune"
    /\ prune.i >= Len(prune.input_files)
    /\ call' = [call EXCEPT !.out = "returned"]
    /\ pc' = "done"
    /\ UNCHANGED <<race, duo, conv, cz, gapi, endpoint, customizer, clock, files,
                   schemaFile, modelFile, loaded,
                   debugFiles, prune>>

\* The call is over (it returned or raised): the caller goes on and the
\* locals of the call are gone.
Return ==
    /\ pc = "done"
    /\ pc' = "idle"
    /\ call' = NoCall
    /\ prune' = NoPrune
    /\ UNCHANGED <<race, duo, conv, cz, gapi, endpoint, customizer, clock, files,
                   schemaFile, modelFile, loaded, debugFiles>>

Next ==
    \/ Tick
    \/ \E d \in endpoint, um \in BOOLEAN : ParseCall(d, um)
    \/ SaveSample
    \/ \E ruffOk \in BOOLEAN : UpdateModel(ruffOk)
    \/ Retry
    \/ Check
    \/ WriteBlankModel
    \/ \E ruffOk \in BOOLEAN : RebuildModel(ruffOk)
    \/ PruneStart
    \/ PruneStep
    \/ PruneEnd
    \/ Return

Spec == Init /\ [][Next]_vars

(***************************************************************************)
(* remove_redundant_json_files on its own, started on any sample directory *)
(* of at most MaxFiles files.                                              *)
(***************************************************************************)
MaxFiles == 4

PruneInputs == Inputs \cup { Obj("i", "i"), Obj("o", "-") }

PruneInit ==
    /\ endpoint = ScalarInputs
    /\ customizer = <<>>
    /\ clock = 0
    /\ files \in UNION { [S -> {JsonDumps(d) : d \in PruneInputs}] :
                          S \in SUBSET (0..(MaxFiles - 1)) }
    /\ schemaFile = <<>>
    /\ modelFile = BlankModel
    /\ loaded = LoadModel(BlankModel)
    /\ debugFiles = <<>>
    /\ pc = "idle"
    /\ call = NoCall
    /\ prune = NoPrune
    /\ gapi = NewGAPI
    /\ cz = NewCustomization
    /\ conv = NoConversion
    /\ duo = NoDuo
    /\ race = NoRace

PruneNext == PruneStart \/ PruneStep \/ PruneEnd \/ Return

PruneSpec == PruneInit /\ [][PruneNext]_vars

(***************************************************************************)
(* A GAPI object on its own: add_object_*, add_schema_*,                   *)
(* get_json_schema_content and get_pydantic_model_content called in any    *)
(* order, at most MaxCalls calls.  get_pydantic_model_content is followed  *)
(* statement by statement.                                                 *)
(***************************************************************************)
MaxCalls == 4

\* The objects and the schema documents given to the object.  The first
\* document is the one merged from {"a": 1} and {"b": 1}: it has no
\* "required" entry.
GapiInputs == { Obj("i", "-"), Obj("-", "i"), Obj("ls", "-"), Obj("o", "-") }

GapiSchemas ==
    { ToSchema(BuilderAddObject(BuilderAddObject(EmptyBuilder, Obj("i", "-")), Obj("-", "i"))),
      ToSchema(BuilderAddObject(EmptyBuilder, Obj("o", "-"))) }

\* Model source text: the header line, the class, its fields, and the form
\* of the text: "generated" as the code generator wrote it, "unparsed" as
\* ast.unparse gives it, "ruff" as the formatter gives it, "noqa+ruff" a
\* formatted text with the header line put in front.
GeneratedSource(doc) ==
    [noqa |-> "", cls |-> ModelName, fields |-> generate(doc), form |-> "generated"]

\* GAPICustomizer.apply_customizations on a text: parse, rewrite, unparse.
customize(rules, text) ==
    LET c == apply_customizations(rules, text.fields) IN
    [err |-> c.err, text |-> [text EXCEPT !.fields = c.fields, !.form = "unparsed"]]

\* format_with_ruff when ruff gives output.
format_with_ruff(text) == [text EXCEPT !.form = "ruff"]

\* What the external formatter does in a run of format_with_ruff: uv is not
\* installed, "ruff check --fix" prints nothing, "ruff format" prints
\* nothing, or both print their output.
RuffOutcomes == {"ok", "no uv", "empty check", "empty format"}

\* The error format_with_ruff raises: FileNotFoundError from
\* _confirm_uv_exists, RuntimeError on an empty stdout.
RuffError(outcome) ==
    IF outcome = "no uv" THEN "FileNotFoundError: uv was not found" ELSE "RuntimeError: ruff"

\* build_ruff_noqa_line() + content
with_noqa_line(text) == [text EXCEPT !.noqa = GeneratedNoqa, !.form = "noqa+ruff"]

\* What write_pydantic_model_to_file puts in the model file.
ModelFileOf(text) == [noqa |-> text.noqa, cls |-> text.cls, fields |-> text.fields]

NoArg == [obj |-> Obj("-", "-"), doc |-> ToSchema(EmptyBuilder)]

Returned(op, schema, model, err) == [op |-> op, schema |-> schema, model |-> model, err |-> err]

GapiFrameButModelFile ==
    UNCHANGED <<endpoint, customizer, clock, files, schemaFile, loaded,
                debugFiles, pc, call, prune, cz, conv, duo, race>>

GapiFrame == GapiFrameButModelFile /\ UNCHANGED modelFile

CanCall == gapi.at = "idle" /\ Len(gapi.log) < MaxCalls

\* An add_object_from_dict that clears the schema cache only.
GapiAddObjectKeepsModelCache(d) ==
    /\ CanCall
    /\ gapi' = [gapi EXCEPT
                  !.cached_json_schema = <<>>,
                  !.builder = BuilderAddObject(@, convert_input_data(d)),
                  !.log = Append(@, [op |-> "add_object", arg |-> [NoArg EXCEPT !.obj = d]]),
                  !.ret = Returned("add_object", <<>>, <<>>, ""),
                  !.got = NewGAPI.got]
    /\ GapiFrame

\* add_object_from_dict (gapi.py:175-188)
GapiAddObject(d) ==
    /\ CanCall
    /\ gapi' = [gapi EXCEPT
                  !.cached_json_schema = <<>>,
                  !.cached_pydantic_model = <<>>,
                  !.builder = BuilderAddObject(@, convert_input_data(d)),
                  !.log = Append(@, [op |-> "add_object", arg |-> [NoArg EXCEPT !.obj = d]]),
                  !.ret = Returned("add_object", <<>>, <<>>, ""),
                  !.got = NewGAPI.got]
    /\ GapiFrame

\* add_schema_from_dict (gapi.py:135-144)
GapiAddSchema(doc) ==
    /\ CanCall
    /\ gapi' = [gapi EXCEPT
                  !.cached_json_schema = <<>>,
                  !.cached_pydantic_model = <<>>,
                  !.builder = BuilderAddSchema(@, doc),
                  !.log = Append(@, [op |-> "add_schema", arg |-> [NoArg EXCEPT !.doc = doc]]),
                  !.ret = Returned("add_schema", <<>>, <<>>, ""),
                  !.got = NewGAPI.got]
    /\ GapiFrame

\* get_json_schema_content (gapi.py:190-200): the value and the cache after.
get_json_schema_content(g) ==
    IF g.cached_json_schema # <<>> THEN g.cached_json_schema ELSE <<ToSchema(g.builder)>>

GapiGetJsonSchema ==
    /\ CanCall
    /\ LET v == get_json_schema_content(gapi) IN
       gapi' = [gapi EXCEPT
                  !.cached_json_schema = v,
                  !.log = Append(@, [op |-> "get_json_schema_content", arg |-> NoArg]),
                  !.ret = Returned("get_json_schema_content", v, <<>>, ""),
                  !.got = [@ EXCEPT !.schema = v]]
    /\ GapiFrame

\* A get_pydantic_model_content that generates the model on every call.
GapiGetModelRegenerates ==
    /\ CanCall
    /\ LET entry == [op |-> "get_pydantic_model_content", arg |-> NoArg]
           v == get_json_schema_content(gapi)
       IN gapi' = [gapi EXCEPT
                     !.cached_json_schema = v,
                     !.content = <<GeneratedSource(v[1])>>,
                     !.at = "generated",
                     !.log = Append(@, entry), !.steps = <<"generate">>,
                     !.ret = Returned("get_pydantic_model_content", <<>>, <<>>, "running"),
                     !.got = [@ EXCEPT !.schema = v]]
    /\ GapiFrame

\* get_pydantic_model_content up to the end of the code generation
\* (gapi.py:217-243): the cached model when there is one, else the schema
\* content is taken and the generator runs on it.
GapiGetModel ==
    /\ CanCall
    /\ LET entry == [op |-> "get_pydantic_model_content", arg |-> NoArg] IN
       IF gapi.cached_pydantic_model # <<>>
       THEN gapi' = [gapi EXCEPT
                       !.log = Append(@, entry), !.steps = <<>>,
                       !.ret = Returned("get_pydantic_model_content", <<>>,
                                        gapi.cached_pydantic_model, ""),
                       !.got = [@ EXCEPT !.model = gapi.cached_pydantic_model]]
       ELSE LET v == get_json_schema_content(gapi) IN
            gapi' = [gapi EXCEPT
                       !.cached_json_schema = v,
                       !.content = <<GeneratedSource(v[1])>>,
                       !.at = "generated",
                       !.log = Append(@, entry), !.steps = <<"generate">>,
                       !.ret = Returned("get_pydantic_model_content", <<>>, <<>>, "running"),
                       !.got = [@ EXCEPT !.schema = v]]
    /\ GapiFrame

\* write_pydantic_model_to_file(output_path) up to the end of the code
\* generation: it calls get_pydantic_model_content and writes the text it
\* returns; with a cached model the file is written at once.
GapiWriteModel ==
    /\ CanCall
    /\ LET entry == [op |-> "write_pydantic_model_to_file", arg |-> NoArg] IN
       IF gapi.cached_pydantic_model # <<>>
       THEN /\ gapi' = [gapi EXCEPT
                          !.log = Append(@, entry), !.steps = <<>>,
                          !.ret = Returned("write_pydantic_model_to_file", <<>>,
                                           gapi.cached_pydantic_model, ""),
                          !.got = [@ EXCEPT !.model = gapi.cached_pydantic_model]]
            /\ modelFile' = ModelFileOf(gapi.cached_pydantic_model[1])
       ELSE /\ LET v == get_json_schema_content(gapi) IN
               gapi' = [gapi EXCEPT
                          !.cached_json_schema = v,
                          !.content = <<GeneratedSource(v[1])>>,
                          !.at = "generated",
                          !.log = Append(@, entry), !.steps = <<"generate">>,
                          !.ret = Returned("write_pydantic_model_to_file", <<>>, <<>>,
                                           "running"),
                          !.got = [@ EXCEPT !.schema = v]]
            /\ UNCHANGED modelFile
    /\ GapiFrameButModelFile

\* content = self._customizer.apply_customizations(content)   (gapi.py:246)
GapiCustomize ==
    /\ gapi.at = "generated"
    /\ LET c == customize(customizer, gapi.content[1]) IN
       IF c.err # ""
       THEN gapi' = [gapi EXCEPT !.at = "idle", !.content = <<>>,
                                 !.steps = Append(@, "apply_customizations"),
                                 !.ret = [@ EXCEPT !.err = c.err]]
       ELSE gapi' = [gapi EXCEPT !.at = "customized", !.content = <<c.text>>,
                                 !.steps = Append(@, "apply_customizations")]
    /\ GapiFrame

\* A first pass of the formatter that passes the text on as it is when
\* the formatter fails.
GapiFormatPassesOn(ruff) ==
    /\ gapi.at = "customized"
    /\ gapi' = [gapi EXCEPT !.at = "formatted",
                            !.content = IF ruff = "ok" THEN <<format_with_ruff(@[1])>> ELSE @,
                            !.ruff = ruff,
                            !.steps = Append(@, "format_with_ruff")]
    /\ GapiFrame

\* content = format_with_ruff(content)   (gapi.py:247)
GapiFormat(ruff) ==
    /\ gapi.at = "customized"
    /\ IF ruff # "ok"
       THEN gapi' = [gapi EXCEPT !.at = "idle", !.content = <<>>, !.ruff = ruff,
                                 !.steps = Append(@, "format_with_ruff"),
                                 !.ret = [@ EXCEPT !.err = RuffError(ruff)]]
       ELSE gapi' = [gapi EXCEPT !.at = "formatted", !.ruff = ruff,
                                 !.content = <<format_with_ruff(@[1])>>,
                                 !.steps = Append(@, "format_with_ruff")]
    /\ GapiFrame

\* A header step that caches the text with the header line and returns it.
GapiNoqaLineCaches ==
    /\ gapi.at = "formatted"
    /\ LET v == <<with_noqa_line(gapi.content[1])>> IN
       gapi' = [gapi EXCEPT !.at = "idle", !.content = <<>>,
                            !.cached_pydantic_model = v,
                            !.steps = Append(@, "build_ruff_noqa_line"),
                            !.ret = [@ EXCEPT !.model = v, !.err = ""],
                            !.got = [@ EXCEPT !.model = v]]
    /\ GapiFrame

\* content = build_ruff_noqa_line() + content   (gapi.py:248)
GapiNoqaLine ==
    /\ gapi.at = "formatted"
    /\ gapi' = [gapi EXCEPT !.at = "headed", !.content = <<with_noqa_line(@[1])>>,
                            !.steps = Append(@, "build_ruff_noqa_line")]
    /\ GapiFrame

\* self.cached_pydantic_model = format_with_ruff(content); return it
\* (gapi.py:249-250); write_pydantic_model_to_file then writes the text
\* (gapi.py:259).
GapiFormatAgain(ruff) ==
    /\ gapi.at = "headed"
    /\ IF ruff # "ok"
       THEN /\ gapi' = [gapi EXCEPT !.at = "idle", !.content = <<>>, !.ruff = ruff,
                                    !.steps = Append(@, "format_with_ruff"),
                                    !.ret = [@ EXCEPT !.err = RuffError(ruff)]]
            /\ UNCHANGED modelFile
       ELSE LET v == <<format_with_ruff(gapi.content[1])>> IN
            /\ gapi' = [gapi EXCEPT !.at = "idle", !.content = <<>>, !.ruff = ruff,
                                    !.cached_pydantic_model = v,
                                    !.steps = Append(@, "format_with_ruff"),
                                    !.ret = [@ EXCEPT !.model = v, !.err = ""],
                                    !.got = [@ EXCEPT !.model = v]]
            /\ modelFile' = IF gapi.ret.op = "write_pydantic_model_to_file"
                            THEN ModelFileOf(v[1]) ELSE modelFile
    /\ GapiFrameButModelFile

GapiInit ==
    /\ endpoint = ScalarInputs
    /\ customizer \in Customizers
    /\ clock = 0
    /\ files = <<>>
    /\ schemaFile = <<>>
    /\ modelFile = BlankModel
    /\ loaded = LoadModel(BlankModel)
    /\ debugFiles = <<>>
    /\ pc = "idle"
    /\ call = NoCall
    /\ prune = NoPrune
    /\ gapi = NewGAPI
    /\ cz = NewCustomization
    /\ conv = NoConversion
    /\ duo = NoDuo
    /\ race = NoRace

GapiNext ==
    \/ \E d \in GapiInputs : GapiAddObject(d)
    \/ \E doc \in GapiSchemas : GapiAddSchema(doc)
    \/ GapiGetJsonSchema
    \/ GapiGetModel
    \/ GapiWriteModel
    \/ GapiCustomize
    \/ \E ruff \in RuffOutcomes : GapiFormat(ruff)
    \/ GapiNoqaLine
    \/ \E ruff \in RuffOutcomes : GapiFormatAgain(ruff)

GapiSpec == GapiInit /\ [][GapiNext]_vars

(***************************************************************************)
(* A GAPICustomizer on its own: rules registered in any order, at most     *)
(* MaxRules of them, then apply_customizations on a generated source,      *)
(* followed statement by statement.                                        *)
(***************************************************************************)
MaxRules == 3

ModelConfig == Assign("model_config", <<"ConfigDict(extra=\"forbid\")">>)

\* The generated source for {"String": "s", "class1": {"string": "s"},
\* "items": [[]]} merged with {"String": "s", "class1": {"string": "s",
\* "items": []}, "items": [[]]}.
NestedSource ==
    << Import("from __future__ import annotations"),
       Import("from typing import Any"),
       Import("from pydantic import BaseModel, ConfigDict, Field"),
       ClassDef("Class1",
           << ModelConfig,
              AnnAssign("string", Name("str"), <<>>),
              AnnAssign("items", BitOr(Subscript("list", Name("Any")), ConstantNone),
                        <<"None">>) >>),
       ClassDef("Model",
           << ModelConfig,
              AnnAssign("string", Name("str"), <<"Field(..., alias=\"String\")">>),
              AnnAssign("class1", Name("Class1"), <<>>),
              AnnAssign("items", Subscript("list", Subscript("list", Name("Any"))), <<>>) >>) >>

\* The generated source for {"items": []}.
EmptyListSource ==
    << Import("from __future__ import annotations"),
       Import("from typing import Any"),
       Import("from pydantic import BaseModel, ConfigDict"),
       ClassDef("Model",
           << ModelConfig,
              AnnAssign("items", Subscript("list", Name("Any")), <<>>) >>) >>

Sources == { NestedSource, EmptyListSource }

\* The rules given to add_replacement_field: "string: int" for Model.string,
\* two statements (one of them an untyped list) for Model.items, a rule on a
\* class that is not generated and one on a field Model does not declare.
ReplacementFields ==
    { [class_name |-> "Model", field_name |-> "string",
       new_field |-> <<AnnAssign("string", Name("int"), <<>>)>>],
      [class_name |-> "Model", field_name |-> "items",
       new_field |-> <<AnnAssign("items", Subscript("list", Name("Any")), <<>>),
                       AnnAssign("count", Name("int"), <<"0">>)>>],
      [class_name |-> "Absent", field_name |-> "string",
       new_field |-> <<AnnAssign("string", Name("int"), <<>>)>>],
      [class_name |-> "Model", field_name |-> "missing",
       new_field |-> <<AnnAssign("missing", Name("int"), <<>>)>>] }

\* The rules given to add_replacement_type.
ReplacementTypes ==
    { [class_name |-> "Model", field_name |-> "string", new_type |-> Name("int")],
      [class_name |-> "Model", field_name |-> "missing", new_type |-> Name("int")] }

\* The rules given to add_custom_serializer; class_name "" is None.
CustomSerializers ==
    { [field_name |-> "string", serializer_code |-> "return value", input_type |-> "str",
       output_type |-> "str", class_name |-> ""],
      [field_name |-> "string", serializer_code |-> "return value", input_type |-> "str",
       output_type |-> "str", class_name |-> "Model"],
      [field_name |-> "string", serializer_code |-> "return value", input_type |-> "str",
       output_type |-> "str", class_name |-> "Absent"],
      [field_name |-> "missing", serializer_code |-> "return value", input_type |-> "str",
       output_type |-> "str", class_name |-> ""] }

AdditionalImports == { "from pydantic import NaiveDatetime", "import datetime" }

CzFrame ==
    UNCHANGED <<endpoint, customizer, clock, files, schemaFile, modelFile, loaded,
                debugFiles, pc, call, prune, gapi, conv, duo, race>>

CanRegister == cz.at = "building" /\ Len(cz.registered) < MaxRules

\* GAPICustomizer.add_replacement_field
CzAddReplacementField(r) ==
    /\ CanRegister
    /\ cz' = [cz EXCEPT !.replacement_fields = Append(@, r),
                        !.registered = Append(@, "replacement_field")]
    /\ CzFrame

\* GAPICustomizer.add_replacement_type
CzAddReplacementType(r) ==
    /\ CanRegister
    /\ cz' = [cz EXCEPT !.replacement_types = Append(@, r),
                        !.registered = Append(@, "replacement_type")]
    /\ CzFrame

\* GAPICustomizer.add_custom_serializer
CzAddCustomSerializer(r) ==
    /\ CanRegister
    /\ cz' = [cz EXCEPT !.custom_serializers = Append(@, r),
                        !.registered = Append(@, "custom_serializer")]
    /\ CzFrame

\* GAPICustomizer.add_additional_import
CzAddAdditionalImport(line) ==
    /\ CanRegister
    /\ cz' = [cz EXCEPT !.additional_imports = Append(@, line),
                        !.registered = Append(@, "additional_import")]
    /\ CzFrame

\* apply_customizations(model_content): tree = ast.parse(model_content) and
\* the dictionary of the classes (customizer.py:142-148).
CzParse(src) ==
    /\ cz.at = "building"
    /\ cz' = [cz EXCEPT !.source = src, !.tree = src, !.at = "parsed"]
    /\ CzFrame

\* self._replace_untyped_lists(class_nodes)   (customizer.py:149)
CzReplaceUntypedLists ==
    /\ cz.at = "parsed"
    /\ cz' = [cz EXCEPT !.tree = ReplaceUntypedLists(@), !.at = "repaired",
                        !.steps = Append(@, "_replace_untyped_lists")]
    /\ CzFrame

\* What a step that may raise leaves: the error and no text, or the tree.
StepResult(r, step, to) ==
    IF r.err # ""
    THEN [cz EXCEPT !.err = r.err, !.at = "raised", !.tree = <<>>,
                    !.steps = Append(@, step)]
    ELSE [cz EXCEPT !.tree = r.tree, !.at = to, !.steps = Append(@, step)]

\* A field-replacement step after which the untyped lists are repaired.
CzApplyReplacementFieldsThenRepair ==
    /\ cz.at = "repaired"
    /\ LET r == ApplyReplacementFields(cz.replacement_fields, cz.tree) IN
       cz' = StepResult([r EXCEPT !.tree = ReplaceUntypedLists(@)],
                        "_apply_replacement_fields", "replaced")
    /\ CzFrame

\* self._apply_replacement_fields(class_nodes)   (customizer.py:150)
CzApplyReplacementFields ==
    /\ cz.at = "repaired"
    /\ cz' = StepResult(ApplyReplacementFields(cz.replacement_fields, cz.tree),
                        "_apply_replacement_fields", "replaced")
    /\ CzFrame

\* The type-replacement step, after the field replacements.
CzApplyReplacementTypes ==
    /\ cz.at = "replaced"
    /\ cz' = StepResult(ApplyReplacementTypes(cz.replacement_types, cz.tree),
                        "_apply_replacement_types", "retyped")
    /\ CzFrame

\* self._apply_custom_serializers(class_nodes)   (customizer.py:151)
CzApplyCustomSerializers ==
    /\ cz.at = "retyped"
    /\ cz' = StepResult(ApplyCustomSerializers(cz.custom_serializers, cz.tree),
                        "_apply_custom_serializers", "serialized")
    /\ CzFrame

\* The import list, _apply_additional_imports and the text returned
\* (customizer.py:152-158).
CzApplyAdditionalImports ==
    /\ cz.at = "serialized"
    /\ LET t == ApplyAdditionalImports(cz.tree, ImportList(cz)) IN
       cz' = [cz EXCEPT !.tree = t, !.out = <<t>>, !.at = "done",
                        !.steps = Append(@, "_apply_additional_imports")]
    /\ CzFrame

CzInit ==
    /\ endpoint = ScalarInputs
    /\ customizer = <<>>
    /\ clock = 0
    /\ files = <<>>
    /\ schemaFile = <<>>
    /\ modelFile = BlankModel
    /\ loaded = LoadModel(BlankModel)
    /\ debugFiles = <<>>
    /\ pc = "idle"
    /\ call = NoCall
    /\ prune = NoPrune
    /\ gapi = NewGAPI
    /\ cz = NewCustomization
    /\ conv = NoConversion
    /\ duo = NoDuo
    /\ race = NoRace

CzNext ==
    \/ \E r \in ReplacementFields : CzAddReplacementField(r)
    \/ \E r \in ReplacementTypes : CzAddReplacementType(r)
    \/ \E r \in CustomSerializers : CzAddCustomSerializer(r)
    \/ \E line \in AdditionalImports : CzAddAdditionalImport(line)
    \/ \E src \in Sources : CzParse(src)
    \/ CzReplaceUntypedLists
    \/ CzApplyReplacementFields
    \/ CzApplyReplacementTypes
    \/ CzApplyCustomSerializers
    \/ CzApplyAdditionalImports

CzSpec == CzInit /\ [][CzNext]_vars

(***************************************************************************)
(* Properties of parse.                                                    *)
(***************************************************************************)
ParseWithUpdate == call.op = "parse" /\ call.update_model

\* C1: a parse call (update_model enabled) validates at most twice and
\* calls _update_model at most once; a second validation happens only after
\* a failed first one and one rebuild; a call whose first validation failed
\* has, when it ends, rebuilt once and, if the rebuild completed, validated
\* twice; when the second validation fails the call ends with the
\* ValidationError after exactly two validations and one rebuild.
C1_AtMostOneRebuild ==
    ParseWithUpdate =>
        /\ call.validations <= 2
        /\ call.rebuilds <= 1
        /\ (call.validations = 2 => ~call.first /\ call.rebuilds = 1)
        /\ (pc = "done" /\ ~call.first =>
                /\ call.rebuilds = 1
                /\ (call.reloads = 1 => call.validations = 2))
        /\ (call.out = "ValidationError" =>
                pc = "done" /\ call.validations = 2 /\ call.rebuilds = 1)

\* A parse call that ended with the ValidationError of the second validation.
C1_Witness ==
    /\ pc = "done" /\ ParseWithUpdate
    /\ call.out = "ValidationError" /\ call.validations = 2 /\ call.rebuilds = 1

\* C2 as stated: when the first validation succeeds the call returns the
\* instance and the sample directory, the schema file, the model file and
\* the loaded class are as before.
C2_FirstSuccessReturnsUnchanged ==
    [][ /\ (pc = "idle" /\ pc' = "check") =>
              /\ files' = files /\ schemaFile' = schemaFile
              /\ modelFile' = modelFile /\ loaded' = loaded
        /\ (pc = "check" /\ call.first /\ pc' = "done") =>
              /\ call'.out = "returned"
              /\ files' = files /\ schemaFile' = schemaFile
              /\ modelFile' = modelFile /\ loaded' = loaded ]_vars

\* C2, amended: when the first validation succeeds the schema file, the
\* model file and the loaded class are as before; when moreover the dump of
\* the instance equals the data, the call returns the instance and the
\* sample directory and the debug files are as before; when the dump
\* differs, the call ends with the ValueError and the data is in the sample
\* file named after the clock reading.
C2_FirstSuccessFrame ==
    [][ /\ (pc = "idle" /\ pc' = "check") =>
              /\ files' = files /\ schemaFile' = schemaFile
              /\ modelFile' = modelFile /\ loaded' = loaded
        /\ (pc = "check" /\ call.first /\ pc' = "done") =>
              /\ schemaFile' = schemaFile /\ modelFile' = modelFile /\ loaded' = loaded
              /\ call'.validations = 1 /\ call'.rebuilds = 0
              /\ (dump_response(call.parsed) = call.data =>
                     /\ call'.out = "returned"
                     /\ call'.parsed = model_validate(loaded, call.data)
                     /\ files' = files /\ debugFiles' = debugFiles)
              /\ (dump_response(call.parsed) # call.data =>
                     /\ call'.out = "ValueError: mismatch"
                     /\ clock \in DOMAIN files'
                     /\ JsonLoads(files'[clock]) = call.data
                     /\ debugFiles' # <<>>) ]_vars

\* A parse call of a non-empty object that returned after one validation.
C2_Witness ==
    /\ pc = "done" /\ ParseWithUpdate
    /\ call.first /\ call.out = "returned" /\ KeysOf(call.data) # {}
    /\ call.saved = <<>>

\* C3 as stated: a parse call whose first validation failed has, when it
\* ends, added exactly one file to the sample directory, that file holds the
\* data, and the call rebuilt exactly once; this holds for every such call,
\* so also for a following call with another sample.
C3_ExactlyOneSample ==
    (pc = "done" /\ ParseWithUpdate /\ ~call.first) =>
        /\ Cardinality(DOMAIN files) = call.atCount + 1
        /\ call.new_file[1] \in DOMAIN files
        /\ JsonLoads(files[call.new_file[1]]) = call.data
        /\ call.rebuilds = 1

C5_ValidationUsesReloadedModel ==
    (pc \in {"idle", "retry"}) => loaded = reload_model(modelFile)

\* The retry is about to validate against a model file that _update_model
\* has just rewritten.
C5_Witness ==
    /\ pc = "retry" /\ call.reloads = 1
    /\ modelFile # BlankModel
    /\ \E k \in Keys : loaded.fields[k].present

\* C6 as stated: a step that saves a sample adds one file and leaves every
\* file that was in the directory in place with its content.
C6_SaveNeverOverwrites ==
    [][ Len(call'.saved) = Len(call.saved) + 1 =>
            /\ \A n \in DOMAIN files : n \in DOMAIN files' /\ files'[n] = files[n]
            /\ Cardinality(DOMAIN files') = Cardinality(DOMAIN files) + 1 ]_vars

\* C7: the schema file _update_model writes is the document of a fresh
\* builder to which the schema file found (if there is one) and then the
\* data of the call were added; with no schema file it is the document of
\* the data alone, and the step ends in the retry or in an error of the
\* model generation, never in an error about the missing file.
C7_SchemaIsOldSchemaPlusSample ==
    [][ (pc = "update" /\ pc' # "update") =>
            LET seeded == IF schemaFile = <<>> THEN EmptyBuilder
                          ELSE BuilderAddSchema(EmptyBuilder, schemaFile[1].doc)
            IN /\ schemaFile' =
                     <<SchemaText(ToSchema(BuilderAddObject(seeded, call.data)))>>
               /\ \/ pc' = "retry"
                  \/ pc' = "done" /\ call'.out \in {"ValueError: not found",
                                                    "RuntimeError: ruff"} ]_vars

\* After _update_model the schema file holds more than the data of the call
\* alone gives: the schema file found contributed.
C7_Witness ==
    /\ pc = "retry" /\ schemaFile # <<>>
    /\ schemaFile[1].doc # ToSchema(BuilderAddObject(EmptyBuilder, call.data))

\* C8: whenever parse (update_model enabled) returns an instance, the dump
\* of that instance equals the data, after one validation as after two.
C8_ReturnedRoundTrips ==
    (pc = "done" /\ ParseWithUpdate /\ call.out = "returned") =>
        /\ call.parsed.ok
        /\ dump_response(call.parsed) = call.data

\* A parse that returned an instance of a non-empty object after a rebuild.
C8_Witness ==
    /\ pc = "done" /\ ParseWithUpdate /\ call.out = "returned"
    /\ call.validations = 2 /\ KeysOf(call.data) # {}
    /\ dump_response(call.parsed) = call.data

\* C9: when the dump of a validated instance differs from the data, the
\* call writes the data and the dump to the debug files and ends with the
\* ValueError, without another validation, without a rebuild and without a
\* change of the schema file, the model file or the loaded class.
C9_MismatchIsFatal ==
    [][ (pc = "check" /\ pc' # "check"
         /\ dump_response(call.parsed) # call.data) =>
            /\ pc' = "done"
            /\ call'.out = "ValueError: mismatch"
            /\ debugFiles' = <<[original |-> JsonDumps(call.data),
                                parsed |-> JsonDumps(dump_response(call.parsed))]>>
            /\ call'.validations = call.validations
            /\ call'.rebuilds = call.rebuilds
            /\ schemaFile' = schemaFile /\ modelFile' = modelFile
            /\ loaded' = loaded ]_vars

\* A parse that ended with the ValueError of a mismatch, the debug files
\* holding its data and a different dump.
C9_Witness ==
    /\ pc = "done" /\ ParseWithUpdate /\ call.out = "ValueError: mismatch"
    /\ debugFiles # <<>>
    /\ JsonLoads(debugFiles[1].original) = call.data
    /\ JsonLoads(debugFiles[1].parsed) # call.data

(***************************************************************************)
(* Properties of remove_redundant_json_files.                              *)
(***************************************************************************)
Pruning == call.op = "remove_redundant_json_files"

\* The schema merged from all the files of a directory, newest first.
MergedSchema(fs) == ToSchema(add_files(EmptyBuilder, Reverse(json_files(fs)), fs))

\* C10: during and after remove_redundant_json_files the schema merged from
\* the files left equals the schema merged from the files found, the working
\* list holds exactly the files left, and a step deletes one file, and only
\* when the working list without it merges to the complete schema.
C10_PruneKeepsMergedSchema ==
    /\ [](Pruning =>
            /\ MergedSchema(files) = MergedSchema(prune.atFiles)
            /\ ToSchema(prune.complete_schema) = MergedSchema(prune.atFiles)
            /\ {prune.input_files[j] : j \in 1..Len(prune.input_files)} = DOMAIN files
            /\ \A n \in DOMAIN files : files[n] = prune.atFiles[n])
    /\ [][ (pc = "prune" /\ files' # files) =>
             LET name == prune.input_files[prune.i + 1]
                 rest == Without(prune.input_files, prune.i)
             IN /\ DOMAIN files' = (DOMAIN files) \ {name}
                /\ prune'.input_files = rest
                /\ ToSchema(add_files(EmptyBuilder, rest, files)) = MergedSchema(files) ]_vars

\* The call is over, it deleted a file and left at least two.
C10_Witness ==
    /\ pc = "done" /\ Pruning
    /\ Cardinality(DOMAIN files) < Cardinality(DOMAIN prune.atFiles)
    /\ Cardinality(DOMAIN files) >= 2

\* The directory fs without the file n.
Remove(fs, n) == [m \in (DOMAIN fs) \ {n} |-> fs[m]]

\* C11 as stated: when remove_redundant_json_files is over, no file left is
\* redundant: the schema merged from the files left without any one of them
\* differs from the schema merged from the files left, also for a file the
\* loop passed before it deleted a later one.
C11_NoRemainingRedundant ==
    (pc = "done" /\ Pruning) =>
        \A n \in DOMAIN files : MergedSchema(Remove(files, n)) # MergedSchema(files)

\* The files the call found all have the same content.
AllIdentical(fs) == \A n, m \in DOMAIN fs : fs[n] = fs[m]

\* C12: when the directory holds k >= 1 files of identical content and no
\* other file, remove_redundant_json_files leaves exactly one file, the one
\* with the lowest name (the oldest).
C12_IdenticalFilesLeaveOldest ==
    (pc = "done" /\ Pruning /\ DOMAIN prune.atFiles # {} /\ AllIdentical(prune.atFiles)) =>
        /\ Cardinality(DOMAIN files) = 1
        /\ \A n \in DOMAIN files : \A m \in DOMAIN prune.atFiles : n <= m

\* The call found three or more files of identical content and has left one.
C12_Witness ==
    /\ pc = "done" /\ Pruning
    /\ Cardinality(DOMAIN prune.atFiles) >= 3 /\ AllIdentical(prune.atFiles)
    /\ Cardinality(DOMAIN files) = 1

(***************************************************************************)
(* Properties of rebuild_model and write_blank_model.                      *)
(***************************************************************************)
\* The schema document of a fresh builder to which every file of the
\* directory was added, in ascending order of the names.
SchemaOfSamples(fs) == ToSchema(add_files(EmptyBuilder, json_files(fs), fs))

\* C13: when rebuild_model is over and the directory holds a sample, the
\* schema file is the document merged from all the sample files by a fresh
\* builder, whatever the schema file was before, and when the call returned
\* the model file is the model generated from that document and the loaded
\* class is the one the model file defines; when the directory is empty the
\* model file is the blank template, there is no schema file, the loaded
\* class is the blank one and the call returned.
C13_RebuildFromSamples ==
    (pc = "done" /\ call.op = "rebuild_model") =>
        IF DOMAIN files # {}
        THEN LET doc == SchemaOfSamples(files) IN
             /\ schemaFile = <<SchemaText(doc)>>
             /\ call.out \in {"returned", "ValueError: not found", "RuntimeError: ruff"}
             /\ (call.out = "returned" =>
                    /\ <<modelFile>> = get_pydantic_model_content(doc, customizer, TRUE).content
                    /\ loaded = LoadModel(modelFile)
                    /\ call.reloads >= 1)
        ELSE /\ modelFile = BlankModel
             /\ schemaFile = <<>>
             /\ loaded = LoadModel(BlankModel)
             /\ call.out = "returned" /\ call.reloads >= 1

\* rebuild_model found the blank model, no schema file and two samples, and
\* returned with a schema that no single sample gives.
C13_Witness ==
    /\ pc = "done" /\ call.op = "rebuild_model" /\ call.out = "returned"
    /\ call.atBlank /\ Cardinality(DOMAIN files) = 2
    /\ schemaFile # <<>> /\ modelFile # BlankModel
    /\ \A n \in DOMAIN files :
          schemaFile[1].doc # ToSchema(add_object_from_file(EmptyBuilder, files[n]))

\* C14: when write_blank_model is over, the model file is the template with
\* no field for the class name of the consumer, there is no schema file and
\* the loaded class is the one the template defines.
C14_BlankModelWritten ==
    (pc = "done" /\ call.op = "write_blank_model") =>
        /\ modelFile = [noqa |-> BlankNoqa, cls |-> ModelName,
                        fields |-> [k \in Keys |-> NoField]]
        /\ schemaFile = <<>>
        /\ loaded = [cls |-> ModelName, fields |-> [k \in Keys |-> NoField]]
        /\ call.out = "returned"

\* write_blank_model found a generated model or a schema file, and samples,
\* and is over.
C14_Witness ==
    /\ pc = "done" /\ call.op = "write_blank_model"
    /\ ~call.atBlank /\ call.atCount > 0
    /\ modelFile = BlankModel /\ schemaFile = <<>>

(***************************************************************************)
(* Properties of the sample directory.                                     *)
(***************************************************************************)
\* C15 as stated: a step of parse, rebuild_model or write_blank_model leaves
\* every sample file of the directory in place with its content; a step of
\* remove_redundant_json_files that changes the directory deletes files
\* without which the merged schema is the same, and leaves the content of
\* the others.
C15_SamplesPersist ==
    [][ /\ pc # "prune" =>
              \A n \in DOMAIN files : n \in DOMAIN files' /\ files'[n] = files[n]
        /\ (pc = "prune" /\ files' # files) =>
              /\ \A n \in DOMAIN files' : n \in DOMAIN files /\ files'[n] = files[n]
              /\ MergedSchema(files') = MergedSchema(files) ]_vars

(***************************************************************************)
(* Properties of the schema accumulator.                                   *)
(***************************************************************************)
\* The objects added to the GAPI object, in the order of the calls.
RECURSIVE ObjectsOf(_)
ObjectsOf(log) ==
    IF log = <<>> THEN <<>>
    ELSE IF Head(log).op = "add_object"
         THEN <<convert_input_data(Head(log).arg.obj)>> \o ObjectsOf(Tail(log))
         ELSE ObjectsOf(Tail(log))

\* No schema document was added: the builder holds samples only.
SamplesOnly(log) == \A j \in 1..Len(log) : log[j].op # "add_schema"

\* add_object for each object of a list, in order, on a fresh builder.
RECURSIVE MergeInto(_, _)
MergeInto(b, objs) ==
    IF objs = <<>> THEN b ELSE MergeInto(BuilderAddObject(b, Head(objs)), Tail(objs))

MergeAll(objs) == MergeInto(EmptyBuilder, objs)

\* The orders in which n objects can be added.
Orders(n) == {f \in [1..n -> 1..n] : \A i, j \in 1..n : f[i] = f[j] => i = j}

Reordered(objs, f) == [j \in 1..Len(objs) |-> objs[f[j]]]

\* A schema document without the order of the alternatives of its nodes.
Unordered(doc) ==
    [doc EXCEPT !.props = [k \in Keys |->
        [doc.props[k] EXCEPT !.order = {doc.props[k].order[j] : j \in 1..Len(doc.props[k].order)}]]]

Shapes == { Obj(va, vb) : va, vb \in {"-", "i", "s", "e", "ls", "o"} }

\* Whether a value conforms to the schema of a property.
NodeAccepts(n, v) ==
    CASE v = "i"  -> "integer" \in n.sc
      [] v = "s"  -> "string" \in n.sc
      [] v = "e"  -> n.arr
      [] v = "ls" -> n.arr /\ (n.items = {} \/ "string" \in n.items)
      [] v = "o"  -> n.obj
      [] OTHER    -> FALSE

\* Whether an object conforms to a schema document, no other key allowed
\* (models are generated with extra_fields="forbid"): the required keys are
\* there, every key has a property and its value conforms to it.
SchemaAccepts(doc, d) ==
    /\ doc.req \subseteq KeysOf(d)
    /\ \A k \in KeysOf(d) : doc.props[k] # NoNode /\ NodeAccepts(doc.props[k], d[k])

\* C17 as stated: an add_object or add_schema call on a builder that holds
\* something leaves every shape the schema accepted before the call
\* accepted after it.
C17_MergeOnlyWidens ==
    [][ (gapi.builder.obj /\ gapi'.builder # gapi.builder) =>
            \A d \in Shapes :
                SchemaAccepts(ToSchema(gapi.builder), d) =>
                    SchemaAccepts(ToSchema(gapi'.builder), d) ]_vars

(***************************************************************************)
(* Properties of the caches and of the generation of the model.            *)
(***************************************************************************)
\* The model text the statements of get_pydantic_model_content give for a
\* schema document when nothing raises.
ModelTextOf(doc, rules) ==
    format_with_ruff(with_noqa_line(format_with_ruff(
        customize(rules, GeneratedSource(doc)).text)))

IsAdd(op) == op \in {"add_object", "add_schema"}

\* C18: a schema cache that is set holds the document of the builder as it
\* is now, and a model cache that is set holds the model text generated from
\* that document; what a get_* call returned is the content for the builder
\* as it is now; and every add_object or add_schema call leaves both caches
\* unset.
C18_CachesFollowBuilder ==
    /\ [](/\ gapi.cached_json_schema # <<>> =>
                gapi.cached_json_schema = <<ToSchema(gapi.builder)>>
          /\ gapi.cached_pydantic_model # <<>> =>
                gapi.cached_pydantic_model =
                    <<ModelTextOf(ToSchema(gapi.builder), customizer)>>
          /\ (gapi.at = "idle" /\ gapi.ret.op = "get_json_schema_content") =>
                gapi.ret.schema = <<ToSchema(gapi.builder)>>
          /\ (gapi.at = "idle" /\ gapi.ret.op = "get_pydantic_model_content"
              /\ gapi.ret.err = "") =>
                gapi.ret.model = <<ModelTextOf(ToSchema(gapi.builder), customizer)>>)
    /\ [][ (Len(gapi'.log) = Len(gapi.log) + 1 /\ IsAdd(gapi'.log[Len(gapi'.log)].op)) =>
              /\ gapi'.cached_json_schema = <<>>
              /\ gapi'.cached_pydantic_model = <<>> ]_vars

\* An object was added, the model was taken, another object was added and
\* the model was taken again: the second model has a field the first lacks.
C18_Witness ==
    /\ gapi.at = "idle" /\ Len(gapi.log) = 4
    /\ gapi.log[1].op = "add_object" /\ gapi.log[2].op = "get_pydantic_model_content"
    /\ gapi.log[3].op = "add_object" /\ gapi.log[4].op = "get_pydantic_model_content"
    /\ gapi.cached_pydantic_model # <<>> /\ gapi.ret.model = gapi.cached_pydantic_model
    /\ gapi.ret.model # <<ModelTextOf(ToSchema(MergeAll(<<gapi.log[1].arg.obj>>)), customizer)>>

\* The step is a call of the method op on the GAPI object.
IsCall(op) == Len(gapi'.log) = Len(gapi.log) + 1 /\ gapi'.log[Len(gapi'.log)].op = op

\* C19: a get_pydantic_model_content call made when an earlier one has
\* returned and no add_* call was made since returns the value the earlier
\* call returned, invokes neither the generator nor the customizer nor the
\* formatter, and leaves the object as it is; likewise a
\* get_json_schema_content call returns the value of the earlier one.
C19_SecondGetIsCached ==
    [][ /\ (IsCall("get_pydantic_model_content") /\ gapi.got.model # <<>>) =>
              /\ gapi'.ret = Returned("get_pydantic_model_content", <<>>, gapi.got.model, "")
              /\ gapi'.at = "idle" /\ gapi'.steps = <<>>
              /\ gapi'.builder = gapi.builder
              /\ gapi'.cached_pydantic_model = gapi.cached_pydantic_model
              /\ gapi'.cached_json_schema = gapi.cached_json_schema
        /\ (IsCall("get_json_schema_content") /\ gapi.got.schema # <<>>) =>
              /\ gapi'.ret = Returned("get_json_schema_content", gapi.got.schema, <<>>, "")
              /\ gapi'.builder = gapi.builder
              /\ gapi'.cached_json_schema = gapi.cached_json_schema ]_vars

\* Two get_pydantic_model_content calls in a row after an add_object call:
\* the first ran the five steps, the second ran none and returned the
\* same text.
C19_Witness ==
    /\ gapi.at = "idle" /\ Len(gapi.log) >= 3
    /\ gapi.log[Len(gapi.log) - 2].op = "add_object"
    /\ gapi.log[Len(gapi.log) - 1].op = "get_pydantic_model_content"
    /\ gapi.log[Len(gapi.log)].op = "get_pydantic_model_content"
    /\ gapi.steps = <<>>
    /\ gapi.ret.model # <<>> /\ gapi.ret.model = gapi.got.model

\* The functions get_pydantic_model_content invokes on a miss, in order.
StepsInOrder ==
    <<"generate", "apply_customizations", "format_with_ruff", "build_ruff_noqa_line",
      "format_with_ruff">>

IsPrefix(s, t) == Len(s) <= Len(t) /\ \A j \in 1..Len(s) : s[j] = t[j]

\* C20: on a miss of the model cache get_pydantic_model_content invokes the
\* code generation on the current schema, apply_customizations, the
\* formatter, the prepending of the header line and the formatter again, in
\* this order, each on the output of the one before; the model cache stays
\* unset until the second pass of the formatter has given its output, and
\* is set to that output, which is what is written to a model file.
C20_GenerationStepsInOrder ==
    /\ [](LET doc == ToSchema(gapi.builder)
              customized == customize(customizer, GeneratedSource(doc)).text
          IN /\ IsPrefix(gapi.steps, StepsInOrder)
             /\ gapi.at # "idle" => gapi.cached_pydantic_model = <<>>
             /\ gapi.cached_pydantic_model # <<>> =>
                   <<ModelFileOf(gapi.cached_pydantic_model[1])>> =
                       get_pydantic_model_content(doc, customizer, TRUE).content
             /\ gapi.at = "generated" =>
                   /\ gapi.steps = SubSeq(StepsInOrder, 1, 1)
                   /\ gapi.content = <<GeneratedSource(doc)>>
             /\ gapi.at = "customized" =>
                   /\ gapi.steps = SubSeq(StepsInOrder, 1, 2)
                   /\ gapi.content = <<customized>>
             /\ gapi.at = "formatted" =>
                   /\ gapi.steps = SubSeq(StepsInOrder, 1, 3)
                   /\ gapi.content = <<format_with_ruff(customized)>>
             /\ gapi.at = "headed" =>
                   /\ gapi.steps = SubSeq(StepsInOrder, 1, 4)
                   /\ gapi.content = <<with_noqa_line(format_with_ruff(customized))>>)
    /\ [][ /\ (IsCall("get_pydantic_model_content") /\ gapi.cached_pydantic_model = <<>>) =>
                 gapi'.at = "generated"
           /\ (gapi'.cached_pydantic_model # gapi.cached_pydantic_model
               /\ gapi'.cached_pydantic_model # <<>>) =>
                 /\ gapi.at = "headed" /\ gapi'.at = "idle"
                 /\ gapi'.steps = StepsInOrder
                 /\ gapi'.cached_pydantic_model = <<format_with_ruff(gapi.content[1])>>
                 /\ gapi'.ret.model = gapi'.cached_pydantic_model ]_vars

\* A get_pydantic_model_content call ran the five steps for a consumer with
\* a replacement rule: the cached text is formatted, carries the header line
\* and has the replaced field.
C20_Witness ==
    /\ gapi.at = "idle" /\ gapi.steps = StepsInOrder
    /\ customizer # <<>>
    /\ gapi.cached_pydantic_model # <<>>
    /\ gapi.cached_pydantic_model[1].form = "ruff"
    /\ gapi.cached_pydantic_model[1].noqa = GeneratedNoqa
    /\ gapi.cached_pydantic_model[1].fields["a"] = IntField
    /\ generate(ToSchema(gapi.builder))["a"] # IntField

\* The last entry of a non-empty sequence.
Last(s) == s[Len(s)]

\* C21: when a run of format_with_ruff finds no uv executable or gets an
\* empty output from the check or from the format sub-step, it raises (a
\* FileNotFoundError for the missing executable, a RuntimeError otherwise)
\* and the unformatted text goes no further: the running
\* get_pydantic_model_content ends with that error and returns no text, the
\* model cache stays unset, the model file is not written, and no step is
\* run again.  A model file is written only with the formatted text a
\* get_pydantic_model_content call returned without error.
C21_FormatterFailureRaises ==
    /\ [][ /\ (/\ gapi'.steps # gapi.steps /\ gapi'.steps # <<>>
               /\ Last(gapi'.steps) = "format_with_ruff"
               /\ gapi'.ruff # "ok") =>
                 /\ gapi'.at = "idle"
                 /\ gapi'.ret.err = IF gapi'.ruff = "no uv"
                                    THEN "FileNotFoundError: uv was not found"
                                    ELSE "RuntimeError: ruff"
                 /\ gapi'.ret.model = <<>>
                 /\ gapi'.cached_pydantic_model = <<>>
                 /\ modelFile' = modelFile
                 /\ gapi'.log = gapi.log
                 /\ gapi'.steps = Append(gapi.steps, "format_with_ruff")
           /\ modelFile' # modelFile =>
                 /\ gapi'.ret.op = "write_pydantic_model_to_file"
                 /\ gapi'.ret.err = ""
                 /\ gapi'.ret.model # <<>>
                 /\ gapi'.ret.model[1].form = "ruff"
                 /\ modelFile'.fields = gapi'.ret.model[1].fields ]_vars
    /\ [](gapi.cached_pydantic_model # <<>> => gapi.cached_pydantic_model[1].form = "ruff")

\* A write_pydantic_model_to_file call whose second pass of the formatter got
\* an empty output from the format sub-step: the call raised after the five
\* steps, the cache is unset and the model file is the one there was.
C21_Witness ==
    /\ gapi.at = "idle"
    /\ gapi.ret.op = "write_pydantic_model_to_file"
    /\ gapi.ret.err = "RuntimeError: ruff"
    /\ gapi.ruff = "empty format"
    /\ Len(gapi.steps) = 5
    /\ gapi.cached_pydantic_model = <<>>
    /\ modelFile = BlankModel
    /\ ToSchema(gapi.builder).props["a"] # NoNode

(***************************************************************************)
(* Properties of the customizer.                                           *)
(***************************************************************************)
\* The private methods apply_customizations invokes, in order.
CustomizerSteps ==
    <<"_replace_untyped_lists", "_apply_replacement_fields", "_apply_replacement_types",
      "_apply_custom_serializers", "_apply_additional_imports">>

\* C22: whatever the order in which the rules were registered,
\* apply_customizations runs the repair of the untyped lists, the field
\* replacements, the type replacements, the serializers and the imports in
\* this order, each on the tree the one before left; the text returned is
\* the one this order gives, and a step that raises ends the call.
C22_RuleGroupsInFixedOrder ==
    /\ IsPrefix(cz.steps, CustomizerSteps)
    /\ cz.at = "done" =>
          /\ cz.steps = CustomizerSteps
          /\ cz.err = ""
          /\ cz.out = <<ApplyCustomizations(cz, cz.source).tree>>
    /\ cz.at = "raised" =>
          /\ cz.out = <<>>
          /\ cz.err # ""
          /\ cz.err = ApplyCustomizations(cz, cz.source).err

\* The body of the class of this name in a module.
BodyOf(tree, name) == tree[ClassNode(tree, name)].body

\* The rules were registered in the reverse of the order of the steps: an
\* import, a serializer, then a field replacement whose new source has an
\* untyped list.  The call ran the five steps in their order: the list of
\* the replacement is not repaired, and the serializer is in the class.
C22_Witness ==
    /\ cz.at = "done"
    /\ cz.registered = <<"additional_import", "custom_serializer", "replacement_field">>
    /\ cz.source = NestedSource
    /\ \E j \in DOMAIN BodyOf(cz.out[1], "Model") :
          /\ BodyOf(cz.out[1], "Model")[j].kind = "AnnAssign"
          /\ BodyOf(cz.out[1], "Model")[j].ann = Subscript("list", Name("Any"))
    /\ \E j \in DOMAIN BodyOf(cz.out[1], "Model") :
          BodyOf(cz.out[1], "Model")[j].kind = "FunctionDef"

\* The rules of a list that name this class.
RulesOn(rules, name) == SelectSeq(rules, LAMBDA r : r.class_name = name)

\* The statements of a body that neither declare a field one of the rules
\* names nor are a statement of the new source of one of them.
Others(body, rules) ==
    SelectSeq(body, LAMBDA s :
        /\ ~\E k \in DOMAIN rules : is_field_node(s, rules[k].field_name)
        /\ ~\E k \in DOMAIN rules : \E h \in DOMAIN rules[k].new_field :
               s = rules[k].new_field[h])

\* new has the statements of rule r in the place where old has its first
\* declaration of the field of r: the other statements before and after
\* are the same, in the same order.
InPlace(old, new, r, rules) ==
    \E i \in DOMAIN old : \E p \in DOMAIN new :
        LET n == Len(r.new_field) IN
        /\ is_field_node(old[i], r.field_name)
        /\ \A h \in 1..(i - 1) : ~is_field_node(old[h], r.field_name)
        /\ p + n - 1 <= Len(new)
        /\ SubSeq(new, p, p + n - 1) = r.new_field
        /\ Others(SubSeq(new, 1, p - 1), rules) = Others(SubSeq(old, 1, i - 1), rules)
        /\ Others(SubSeq(new, p + n, Len(new)), rules) =
              Others(SubSeq(old, i + 1, Len(old)), rules)

\* C23: when the field replacements are applied without error, the module
\* keeps its statements and classes in their places; a class no rule names
\* keeps its body; in a class the rules name, the statements that are
\* neither a named field nor a replacement keep their content and order,
\* and every rule has its statements in the place of the declaration of its
\* field; with a single rule on a class, the body is the old one with
\* exactly that one statement replaced by the statements of the rule.
C23_ReplacementInPlace ==
    [][ (cz.at = "repaired" /\ cz'.at = "replaced") =>
          /\ Len(cz'.tree) = Len(cz.tree)
          /\ \A j \in DOMAIN cz.tree :
                LET old == cz.tree[j]
                    new == cz'.tree[j]
                    rules == RulesOn(cz.replacement_fields, old.name)
                IN /\ new.kind = old.kind /\ new.name = old.name
                   /\ (old.kind # "ClassDef" \/ rules = <<>>) => new = old
                   /\ (old.kind = "ClassDef" /\ rules # <<>>) =>
                         /\ Others(new.body, rules) = Others(old.body, rules)
                         /\ \A k \in DOMAIN rules : InPlace(old.body, new.body, rules[k], rules)
                   /\ (old.kind = "ClassDef" /\ Len(rules) = 1) =>
                         \E i \in DOMAIN old.body :
                            LET n == Len(rules[1].new_field) IN
                            /\ is_field_node(old.body[i], rules[1].field_name)
                            /\ Len(new.body) = Len(old.body) - 1 + n
                            /\ \A h \in 1..(i - 1) : new.body[h] = old.body[h]
                            /\ \A h \in 1..n : new.body[i - 1 + h] = rules[1].new_field[h]
                            /\ \A h \in (i + 1)..Len(old.body) :
                                  new.body[h - 1 + n] = old.body[h] ]_vars

\* The rule on Model.string is the only one: the declaration of string, the
\* second of four statements of Model, is now "string: int", the two
\* statements after it are those the repair left, and the declaration of
\* string in Class1 is the one of the source.
C23_Witness ==
    /\ cz.at = "replaced"
    /\ cz.source = NestedSource
    /\ Len(cz.replacement_fields) = 1
    /\ cz.replacement_fields[1].field_name = "string"
    /\ BodyOf(cz.tree, "Model")[2] = AnnAssign("string", Name("int"), <<>>)
    /\ BodyOf(cz.tree, "Model")[3] = BodyOf(NestedSource, "Model")[3]
    /\ BodyOf(cz.tree, "Model")[4] =
          AnnAssign("items", Subscript("list", Subscript("list", ConstantNone)), <<>>)
    /\ Len(BodyOf(cz.tree, "Model")) = 4
    /\ BodyOf(cz.tree, "Class1")[2] = BodyOf(NestedSource, "Class1")[2]

\* A rule names a class the source does not define.
AbsentClass(r) == r.class_name # "" /\ ClassNode(cz.source, r.class_name) = 0

\* A rule names a field its class does not declare in the source.
AbsentField(r) ==
    /\ ClassNode(cz.source, r.class_name) # 0
    /\ ~has_field(cz.source[ClassNode(cz.source, r.class_name)], r.field_name)

C25_RetypeKeepsAlias ==
    [][ (cz.at = "replaced" /\ cz'.at = "retyped") =>
          /\ Len(cz'.tree) = Len(cz.tree)
          /\ \A j \in DOMAIN cz.tree :
                LET old == cz.tree[j]
                    new == cz'.tree[j]
                IN /\ new.kind = old.kind /\ new.name = old.name /\ new.ann = old.ann
                   /\ new.value = old.value
                   /\ Len(new.body) = Len(old.body)
                   /\ \A h \in DOMAIN old.body :
                         /\ new.body[h].kind = old.body[h].kind
                         /\ new.body[h].name = old.body[h].name
                         /\ new.body[h].value = old.body[h].value
                         /\ new.body[h].body = old.body[h].body
                         /\ \/ new.body[h].ann = old.body[h].ann
                            \/ \E k \in DOMAIN cz.replacement_types :
                                  /\ cz.replacement_types[k].class_name = old.name
                                  /\ is_field_node(old.body[h],
                                                   cz.replacement_types[k].field_name)
                                  /\ new.body[h].ann = cz.replacement_types[k].new_type ]_vars

\* The field string of Model, declared as str with the alias "String", was
\* retyped to int by the only rule and still has the alias.
C25_Witness ==
    /\ cz.at = "retyped"
    /\ cz.source = NestedSource
    /\ cz.registered = <<"replacement_type">>
    /\ BodyOf(cz.source, "Model")[2] =
          AnnAssign("string", Name("str"), <<"Field(..., alias=\"String\")">>)
    /\ BodyOf(cz.tree, "Model")[2] =
          AnnAssign("string", Name("int"), <<"Field(..., alias=\"String\")">>)

\* The class a serializer rule is for: the named one, or, without a name,
\* one that declares the field.
SerializerFor(r, class_node) ==
    IF r.class_name # "" THEN r.class_name = class_node.name
    ELSE has_field(class_node, r.field_name)

\* C26: when the serializers are inserted without error, every class has
\* its body followed by the methods of the rules that name it and of the
\* rules without class name whose field it declares, in the order of the
\* rules, and by no other; a statement that is not a class is unchanged.
C26_SerializerScope ==
    [][ (cz.at = "retyped" /\ cz'.at = "serialized") =>
          /\ Len(cz'.tree) = Len(cz.tree)
          /\ \A j \in DOMAIN cz.tree :
                LET old == cz.tree[j]
                    new == cz'.tree[j]
                    for == SelectSeq(cz.custom_serializers,
                                     LAMBDA r : SerializerFor(r, old))
                IN IF old.kind # "ClassDef" THEN new = old
                   ELSE /\ new.name = old.name
                        /\ Len(new.body) = Len(old.body) + Len(for)
                        /\ SubSeq(new.body, 1, Len(old.body)) = old.body
                        /\ \A k \in DOMAIN for :
                              /\ new.body[Len(old.body) + k].kind = "FunctionDef"
                              /\ new.body[Len(old.body) + k].name = for[k].field_name
                              /\ new.body[Len(old.body) + k].value =
                                    <<for[k].input_type, for[k].output_type,
                                      for[k].serializer_code>> ]_vars

\* Two rules: one for the field string in class Model, one without class
\* name for string.  Class1 and Model both declare string: Model has the
\* two methods after its four statements, Class1 the one of the rule without
\* class name after its three.
C26_Witness ==
    /\ cz.at = "serialized"
    /\ cz.source = NestedSource
    /\ cz.registered = <<"custom_serializer", "custom_serializer">>
    /\ cz.custom_serializers[1].class_name = "Model"
    /\ cz.custom_serializers[2].class_name = ""
    /\ cz.custom_serializers[2].field_name = "string"
    /\ Len(BodyOf(cz.tree, "Model")) = 6
    /\ BodyOf(cz.tree, "Model")[6].kind = "FunctionDef"
    /\ Len(BodyOf(cz.tree, "Class1")) = 4
    /\ BodyOf(cz.tree, "Class1")[4].kind = "FunctionDef"

\* Some class of a module has a serializer method.
HasSerializer(tree) ==
    \E j \in DOMAIN tree : \E h \in DOMAIN tree[j].body : tree[j].body[h].kind = "FunctionDef"

\* C27 as stated: the text returned starts with the additional imports in
\* the order of their registration, before the statements of the source,
\* and has the import of the decorator if and only if a serializer method
\* was inserted into some class.
C27_DecoratorImportIffInserted ==
    cz.at = "done" =>
        LET out == cz.out[1]
            n == Len(cz.additional_imports)
        IN /\ \A k \in 1..n : out[k] = Import(cz.additional_imports[k])
           /\ (\E k \in DOMAIN out : out[k] = Import(SerializerImport)) <=> HasSerializer(out)

\* C27, amended: the last step puts the additional imports, in the order of
\* their registration, in front of the statements the module has, followed
\* by the import of the decorator if and only if the customizer has a
\* Custom Serializer rule (whether or not a method was inserted); the
\* statements of the module follow unchanged, and this is the text returned.
C27_ImportsAtTop ==
    [][ (cz.at = "serialized" /\ cz'.at = "done") =>
          LET n == Len(cz.additional_imports)
              extra == IF cz.custom_serializers # <<>> THEN 1 ELSE 0
              out == cz'.out[1]
          IN /\ cz'.out = <<cz'.tree>>
             /\ Len(out) = n + extra + Len(cz.tree)
             /\ \A k \in 1..n : out[k] = Import(cz.additional_imports[k])
             /\ extra = 1 => out[n + 1] = Import("from pydantic import field_serializer")
             /\ SubSeq(out, n + extra + 1, Len(out)) = cz.tree
             /\ HasSerializer(out) => extra = 1 ]_vars

\* Two imports and a rule without class name for a field no class declares:
\* no method was inserted, and the text starts with the two imports in the
\* order of their registration, the import of the decorator and the first
\* import of the source.
C27_Witness ==
    /\ cz.at = "done"
    /\ cz.source = EmptyListSource
    /\ Len(cz.additional_imports) = 2
    /\ cz.additional_imports[1] # cz.additional_imports[2]
    /\ Len(cz.custom_serializers) = 1
    /\ ~HasSerializer(cz.out[1])
    /\ cz.out[1][1] = Import(cz.additional_imports[1])
    /\ cz.out[1][2] = Import(cz.additional_imports[2])
    /\ cz.out[1][3] = Import(SerializerImport)
    /\ cz.out[1][4] = Import("from __future__ import annotations")

\* An annotation has an untyped list somewhere in it.
RECURSIVE HasUntypedList(_)
HasUntypedList(a) ==
    is_untyped_list(a) \/ \E j \in DOMAIN a.args : HasUntypedList(a.args[j])

\* new is old with every list[Any] (List[Any]) turned into list[None]
\* (List[None]) and nothing else changed.
RECURSIVE Repaired(_, _)
Repaired(old, new) ==
    /\ new.op = old.op /\ new.id = old.id /\ Len(new.args) = Len(old.args)
    /\ IF old.op = "Subscript" /\ old.id \in {"list", "List"} /\ old.args[1] = Name("Any")
       THEN new.args[1] = ConstantNone
       ELSE \A j \in DOMAIN old.args : Repaired(old.args[j], new.args[j])

\* C28: after _replace_untyped_lists no field of a class has list[Any] at
\* any depth of its annotation: every such marker of the source is now
\* list[None], an annotation without the marker is the one of the source,
\* and nothing but annotations of class fields changed.
C28_UntypedListsRepaired ==
    [][ (cz.at = "parsed" /\ cz'.at = "repaired") =>
          /\ Len(cz'.tree) = Len(cz.tree)
          /\ \A j \in DOMAIN cz.tree :
                LET old == cz.tree[j]
                    new == cz'.tree[j]
                IN /\ [new EXCEPT !.body = <<>>] = [old EXCEPT !.body = <<>>]
                   /\ Len(new.body) = Len(old.body)
                   /\ \A h \in DOMAIN old.body :
                         /\ [new.body[h] EXCEPT !.ann = NoAnn] = [old.body[h] EXCEPT !.ann = NoAnn]
                         /\ ~HasUntypedList(new.body[h].ann)
                         /\ Repaired(old.body[h].ann, new.body[h].ann)
                         /\ ~HasUntypedList(old.body[h].ann) =>
                               new.body[h].ann = old.body[h].ann ]_vars

\* The source generated for {"items": []} declares items as list[None]
\* after the repair.
C28_Witness ==
    /\ cz.at = "repaired"
    /\ cz.source = EmptyListSource
    /\ BodyOf(cz.source, "Model")[2] = AnnAssign("items", Subscript("list", Name("Any")), <<>>)
    /\ BodyOf(cz.tree, "Model")[2] = AnnAssign("items", Subscript("list", ConstantNone), <<>>)

(***************************************************************************)
(* Properties of the models rebuilt by parse.                              *)
(***************************************************************************)
\* C29: when the loaded model declares a field as list[None] (only empty
\* lists were seen for it) and parse is given a list of strings for it, the
\* model the rebuild loads declares the field as a list of str alone: the
\* item types are the observed one, without the placeholder; and no model
\* file and no loaded model ever declares an untyped list[Any].
C29_PlaceholderOverwritten ==
    /\ [][ (pc = "update" /\ pc' = "retry" /\ customizer = <<>>) =>
              \A k \in Keys :
                 (loaded.fields[k].list = "None" /\ call.data[k] = "ls") =>
                    /\ loaded'.fields[k].present
                    /\ loaded'.fields[k].list = "typed"
                    /\ loaded'.fields[k].items = {"string"}
                    /\ loaded'.fields[k].sc = loaded.fields[k].sc
                    /\ modelFile'.fields[k] = loaded'.fields[k] ]_vars
    /\ [](\A k \in Keys : loaded.fields[k].list # "Any" /\ modelFile.fields[k].list # "Any")

\* A parse of {"a": ["s"]} by a consumer whose model had a: list[None]
\* returned after one rebuild, and the model has a: list[str].
C29_Witness ==
    /\ pc = "done" /\ call.op = "parse" /\ call.out = "returned"
    /\ call.data["a"] = "ls" /\ call.rebuilds = 1
    /\ \E f \in DOMAIN files : JsonLoads(files[f])["a"] = "e"
    /\ loaded.fields["a"].list = "typed"
    /\ loaded.fields["a"].items = {"string"}

\* The field the model generated from the schema file declares for a key,
\* NoField when there is no schema file.
FieldBefore(k) == IF schemaFile = <<>> THEN NoField ELSE generate(schemaFile[1].doc)[k]

\* C30 as stated: the model a parse rebuilds is the join of the model of
\* the samples merged before and of the sample of the call: it declares the
\* fields declared before and those of the sample; a field is optional if
\* and only if it was optional before, or is new while samples were merged
\* before, or is absent from the sample; and its types and the types of
\* its list items are the union of those before and those of the sample.
C30_ModelIsJoinOfSamples ==
    [][ (pc = "update" /\ pc' = "retry" /\ customizer = <<>>) =>
          \A k \in Keys :
             LET before == FieldBefore(k)
                 after == loaded'.fields[k]
                 seen == call.data[k] # "-"
             IN /\ after.present <=> (before.present \/ seen)
                /\ after.present =>
                      /\ after.sc = before.sc \cup NodeOf(call.data[k]).sc
                      /\ after.items = before.items \cup NodeOf(call.data[k]).items
                      /\ after.opt <=> \/ ~seen
                                       \/ before.opt
                                       \/ schemaFile # <<>> /\ ~before.present ]_vars

(***************************************************************************)
(* convert.py: leaf strings that hold a timestamp, a date, a time, a       *)
(* duration, an IP address or a UUID in canonical form become values of    *)
(* these types.  A string is a sequence of characters here, a value is a   *)
(* record: kind "str" with chars, "int", "bool" or "None", a parsed kind   *)
(* with its fields f (integers), "list" with items, "dict" with keys (in   *)
(* insertion order) and items (the value of each key).                     *)
(***************************************************************************)
Value(kind, chars, f, keys, items) ==
    [kind |-> kind, chars |-> chars, f |-> f, keys |-> keys, items |-> items]

Str(chars) == Value("str", chars, <<>>, <<>>, <<>>)

IntValue(n) == Value("int", <<>>, <<n>>, <<>>, <<>>)

BoolValue(b) == Value("bool", <<>>, <<IF b THEN 1 ELSE 0>>, <<>>, <<>>)

NoneValue == Value("None", <<>>, <<>>, <<>>, <<>>)

Typed(kind, f) == Value(kind, <<>>, f, <<>>, <<>>)

ListOf(items) == Value("list", <<>>, <<>>, <<>>, items)

DictOf(keys, items) == Value("dict", <<>>, <<>>, keys, items)

\* The outcome of a validation: a value, or a ValidationError (a ValueError).
Parsed(v) == [ok |-> TRUE, v |-> v]

Invalid == [ok |-> FALSE, v |-> NoneValue]

\* Characters and numbers.
HexChars == <<"0", "1", "2", "3", "4", "5", "6", "7", "8", "9", "a", "b", "c", "d", "e", "f">>

Digits == {HexChars[i] : i \in 1..10}

Lower(c) ==
    CASE c = "A" -> "a" [] c = "B" -> "b" [] c = "C" -> "c" [] c = "D" -> "d"
      [] c = "E" -> "e" [] c = "F" -> "f" [] OTHER -> c

IsHexChar(c) == \E i \in 1..16 : HexChars[i] = Lower(c)

HexVal(c) == (CHOOSE i \in 1..16 : HexChars[i] = Lower(c)) - 1

IsDigits(s) == s # <<>> /\ \A i \in DOMAIN s : s[i] \in Digits

IsHex(s) == s # <<>> /\ \A i \in DOMAIN s : IsHexChar(s[i])

RECURSIVE Num(_)
Num(s) == IF s = <<>> THEN 0 ELSE Num(SubSeq(s, 1, Len(s) - 1)) * 10 + HexVal(s[Len(s)])

RECURSIVE HexNum(_)
HexNum(s) == IF s = <<>> THEN 0 ELSE HexNum(SubSeq(s, 1, Len(s) - 1)) * 16 + HexVal(s[Len(s)])

RECURSIVE InBase(_, _)
InBase(n, base) ==
    IF n < base THEN <<HexChars[n + 1]>>
    ELSE Append(InBase(n \div base, base), HexChars[(n % base) + 1])

Dec(n) == InBase(n, 10)

RECURSIVE Pad(_, _)
Pad(n, width) ==
    IF width = 0 THEN <<>> ELSE Append(Pad(n \div 10, width - 1), HexChars[(n % 10) + 1])

\* The place of the first c in s, or 0.
IndexOf(s, c) ==
    IF \E i \in DOMAIN s : s[i] = c
    THEN CHOOSE i \in DOMAIN s : s[i] = c /\ \A j \in 1..(i - 1) : s[j] # c
    ELSE 0

From(s, i) == SubSeq(s, i, Len(s))

\* str.split(c).
RECURSIVE Split(_, _)
Split(s, c) ==
    LET i == IndexOf(s, c) IN
    IF i = 0 THEN <<s>> ELSE <<SubSeq(s, 1, i - 1)>> \o Split(From(s, i + 1), c)

RECURSIVE Join(_, _)
Join(parts, c) ==
    IF parts = <<>> THEN <<>>
    ELSE IF Len(parts) = 1 THEN parts[1]
    ELSE parts[1] \o c \o Join(Tail(parts), c)

\* The calendar.
IsLeap(y) == (y % 4 = 0 /\ y % 100 # 0) \/ y % 400 = 0

DaysIn(y, m) ==
    IF m = 2 THEN (IF IsLeap(y) THEN 29 ELSE 28)
    ELSE IF m \in {4, 6, 9, 11} THEN 30 ELSE 31

\* The date that lies the given number of days after the first of month m
\* of year y.
RECURSIVE CivilFrom(_, _, _)
CivilFrom(y, m, days) ==
    IF days < DaysIn(y, m) THEN <<y, m, days + 1>>
    ELSE IF m = 12 THEN CivilFrom(y + 1, 1, days - DaysIn(y, m))
    ELSE CivilFrom(y, m + 1, days - DaysIn(y, m))

\* "YYYY-MM-DD": the fields <<year, month, day>>.
ParseDateText(s) ==
    IF /\ Len(s) = 10 /\ s[5] = "-" /\ s[8] = "-"
       /\ IsDigits(SubSeq(s, 1, 4)) /\ IsDigits(SubSeq(s, 6, 7)) /\ IsDigits(SubSeq(s, 9, 10))
    THEN LET y == Num(SubSeq(s, 1, 4))
             m == Num(SubSeq(s, 6, 7))
             d == Num(SubSeq(s, 9, 10))
         IN IF m \in 1..12 /\ d >= 1 /\ d <= DaysIn(y, m)
            THEN [ok |-> TRUE, f |-> <<y, m, d>>] ELSE [ok |-> FALSE, f |-> <<>>]
    ELSE [ok |-> FALSE, f |-> <<>>]

\* The offset at the end of a time: "Z", "z", "+HH:MM" or "-HH:MM", or
\* none.  f is <<aware, offset in minutes>>, body the text before it.
ParseOffset(s) ==
    LET n == Len(s) IN
    IF n >= 1 /\ s[n] \in {"Z", "z"}
    THEN [ok |-> TRUE, f |-> <<1, 0>>, body |-> SubSeq(s, 1, n - 1)]
    ELSE IF n >= 6 /\ s[n - 5] \in {"+", "-"}
    THEN LET hh == SubSeq(s, n - 4, n - 3)
             mm == SubSeq(s, n - 1, n)
         IN IF s[n - 2] = ":" /\ IsDigits(hh) /\ IsDigits(mm) /\ Num(hh) < 24 /\ Num(mm) < 60
            THEN [ok |-> TRUE,
                  f |-> <<1, (IF s[n - 5] = "-" THEN -1 ELSE 1) * (Num(hh) * 60 + Num(mm))>>,
                  body |-> SubSeq(s, 1, n - 6)]
            ELSE [ok |-> FALSE, f |-> <<>>, body |-> <<>>]
    ELSE [ok |-> TRUE, f |-> <<0, 0>>, body |-> s]

\* The microseconds a fraction of 1 to 6 digits stands for.
Micro(frac) == Num(frac \o [i \in 1..(6 - Len(frac)) |-> "0"])

\* "HH:MM", "HH:MM:SS" or "HH:MM:SS.ffffff", with an offset or without:
\* the fields <<hour, minute, second, microsecond, aware, offset>>.
ParseTimeText(s) ==
    LET o == ParseOffset(s)
        b == o.body
        n == Len(b)
        none == [ok |-> FALSE, f |-> <<>>]
    IN IF ~o.ok \/ n < 5 THEN none
       ELSE IF ~(IsDigits(SubSeq(b, 1, 2)) /\ b[3] = ":" /\ IsDigits(SubSeq(b, 4, 5))) THEN none
       ELSE LET h == Num(SubSeq(b, 1, 2))
                mi == Num(SubSeq(b, 4, 5))
                hasSec == n >= 8 /\ b[6] = ":" /\ IsDigits(SubSeq(b, 7, 8))
                sec == IF hasSec THEN Num(SubSeq(b, 7, 8)) ELSE 0
                hasFrac == hasSec /\ n >= 10 /\ n <= 15 /\ b[9] = "." /\ IsDigits(From(b, 10))
                us == IF hasFrac THEN Micro(From(b, 10)) ELSE 0
            IN IF /\ h < 24 /\ mi < 60 /\ sec < 60
                  /\ (n = 5 \/ (hasSec /\ n = 8) \/ hasFrac)
               THEN [ok |-> TRUE, f |-> <<h, mi, sec, us>> \o o.f]
               ELSE none

\* A number of seconds since 1970-01-01T00:00:00Z, "123" or "123.45": the
\* fields of the UTC timestamp.  The numbers handled here have nine digits
\* at most, all of them counts of seconds.
ParseUnixText(s) ==
    LET dot == IndexOf(s, ".")
        whole == IF dot = 0 THEN s ELSE SubSeq(s, 1, dot - 1)
        frac == IF dot = 0 THEN <<>> ELSE From(s, dot + 1)
    IN IF IsDigits(whole) /\ Len(whole) <= 9 /\ (dot = 0 \/ (IsDigits(frac) /\ Len(frac) <= 6))
       THEN LET secs == Num(whole)
                us == IF dot = 0 THEN 0 ELSE Micro(frac)
                day == CivilFrom(1970, 1, secs \div 86400)
                t == secs % 86400
            IN [ok |-> TRUE,
                f |-> day \o <<t \div 3600, (t % 3600) \div 60, t % 60, us, 1, 0>>]
       ELSE [ok |-> FALSE, f |-> <<>>]

\* TypeAdapter(datetime).validate_python(s): a date and a time joined by
\* "T", "t", " " or "_"; a date alone (midnight of that day); a number of
\* seconds.  The fields are <<year, month, day, hour, minute, second,
\* microsecond, aware, offset>>.
ParseDatetime(s) ==
    LET d == ParseDateText(SubSeq(s, 1, 10))
        t == ParseTimeText(From(s, 12))
        day == ParseDateText(s)
        unix == ParseUnixText(s)
    IN IF Len(s) >= 16 /\ s[11] \in {"T", "t", " ", "_"} /\ d.ok /\ t.ok
       THEN Parsed(Typed("datetime", d.f \o t.f))
       ELSE IF day.ok THEN Parsed(Typed("datetime", day.f \o <<0, 0, 0, 0, 0, 0>>))
       ELSE IF unix.ok THEN Parsed(Typed("datetime", unix.f))
       ELSE Invalid

\* TypeAdapter(date).validate_python(s): what the timestamp validation
\* takes, when its time of day is exactly midnight.
ParseDate(s) ==
    LET dt == ParseDatetime(s) IN
    IF dt.ok /\ SubSeq(dt.v.f, 4, 7) = <<0, 0, 0, 0>>
    THEN Parsed(Typed("date", SubSeq(dt.v.f, 1, 3)))
    ELSE Invalid

\* TypeAdapter(time).validate_python(s).
ParseTime(s) ==
    LET t == ParseTimeText(s) IN IF t.ok THEN Parsed(Typed("time", t.f)) ELSE Invalid

\* The text of <<hour, minute, second, microsecond, aware, offset>>.
DumpTimeFields(f) ==
    LET off == IF f[6] < 0 THEN -f[6] ELSE f[6] IN
    Pad(f[1], 2) \o <<":">> \o Pad(f[2], 2) \o <<":">> \o Pad(f[3], 2)
      \o (IF f[4] = 0 THEN <<>> ELSE <<".">> \o Pad(f[4], 6))
      \o (IF f[5] = 0 THEN <<>>
          ELSE IF f[6] = 0 THEN <<"Z">>
          ELSE <<IF f[6] < 0 THEN "-" ELSE "+">> \o Pad(off \div 60, 2) \o <<":">>
                 \o Pad(off % 60, 2))

DumpDateFields(f) == Pad(f[1], 4) \o <<"-">> \o Pad(f[2], 2) \o <<"-">> \o Pad(f[3], 2)

\* A number followed by the unit character, at the head of s: n is the
\* number (0 when the unit does not occur in s) and rest the text after it.
TakeUnit(s, unit) ==
    LET i == IndexOf(s, unit) IN
    IF i = 0 THEN [ok |-> TRUE, n |-> 0, rest |-> s]
    ELSE IF IsDigits(SubSeq(s, 1, i - 1)) /\ i <= 10
    THEN [ok |-> TRUE, n |-> Num(SubSeq(s, 1, i - 1)), rest |-> From(s, i + 1)]
    ELSE [ok |-> FALSE, n |-> 0, rest |-> <<>>]

\* TypeAdapter(timedelta).validate_python(s): an ISO 8601 duration
\* "PnWnDTnHnMnS" or a clock reading "HH:MM:SS".  The fields are
\* <<days, seconds>>, seconds below 86400.
ParseTimedelta(s) ==
    LET reading == ParseTimeText(s)
        t == IndexOf(s, "T")
        datePart == IF t = 0 THEN From(s, 2) ELSE SubSeq(s, 2, t - 1)
        timePart == IF t = 0 THEN <<>> ELSE From(s, t + 1)
        w == TakeUnit(datePart, "W")
        d == TakeUnit(w.rest, "D")
        h == TakeUnit(timePart, "H")
        m == TakeUnit(h.rest, "M")
        sec == TakeUnit(m.rest, "S")
        total == ((w.n * 7 + d.n) * 24 + h.n) * 3600 + m.n * 60 + sec.n
    IN IF Len(s) >= 3 /\ s[1] = "P"
       THEN IF /\ w.ok /\ d.ok /\ d.rest = <<>>
               /\ h.ok /\ m.ok /\ sec.ok /\ sec.rest = <<>>
               /\ (t = 0 \/ timePart # <<>>)
            THEN Parsed(Typed("timedelta", <<total \div 86400, total % 86400>>))
            ELSE Invalid
       ELSE IF reading.ok /\ Len(s) = 8
       THEN Parsed(Typed("timedelta",
                         <<0, reading.f[1] * 3600 + reading.f[2] * 60 + reading.f[3]>>))
       ELSE Invalid

DumpTimedelta(f) ==
    LET h == f[2] \div 3600
        m == (f[2] % 3600) \div 60
        sec == f[2] % 60
    IN IF f = <<0, 0>> THEN <<"P", "T", "0", "S">>
       ELSE <<"P">> \o (IF f[1] = 0 THEN <<>> ELSE Dec(f[1]) \o <<"D">>)
              \o (IF f[2] = 0 THEN <<>>
                  ELSE <<"T">> \o (IF h = 0 THEN <<>> ELSE Dec(h) \o <<"H">>)
                         \o (IF m = 0 THEN <<>> ELSE Dec(m) \o <<"M">>)
                         \o (IF sec = 0 THEN <<>> ELSE Dec(sec) \o <<"S">>))

\* TypeAdapter(IPv4Address).validate_python(s): four decimal octets without
\* leading zeros.
ParseIPv4(s) ==
    LET parts == Split(s, ".") IN
    IF /\ Len(parts) = 4
       /\ \A i \in 1..4 : /\ IsDigits(parts[i]) /\ Len(parts[i]) <= 3
                          /\ (Len(parts[i]) = 1 \/ parts[i][1] # "0")
                          /\ Num(parts[i]) <= 255
    THEN Parsed(Typed("IPv4Address", [i \in 1..4 |-> Num(parts[i])]))
    ELSE Invalid

DumpIPv4(f) == Join([i \in 1..4 |-> Dec(f[i])], <<".">>)

\* The groups of one side of an address: none for an empty side.
Groups(s) == IF s = <<>> THEN <<>> ELSE Split(s, ":")

\* The place where "::" starts in s, or 0.
DoubleColon(s) ==
    IF \E i \in 1..(Len(s) - 1) : s[i] = ":" /\ s[i + 1] = ":"
    THEN CHOOSE i \in 1..(Len(s) - 1) :
            /\ s[i] = ":" /\ s[i + 1] = ":"
            /\ \A j \in 1..(i - 1) : ~(s[j] = ":" /\ s[j + 1] = ":")
    ELSE 0

\* TypeAdapter(IPv6Address).validate_python(s): eight groups of one to four
\* hexadecimal digits, a run of zero groups possibly written "::".
ParseIPv6(s) ==
    LET i == DoubleColon(s)
        left == IF i = 0 THEN Groups(s) ELSE Groups(SubSeq(s, 1, i - 1))
        right == IF i = 0 THEN <<>> ELSE Groups(From(s, i + 2))
        zeros == [k \in 1..(8 - Len(left) - Len(right)) |-> <<"0">>]
        groups == left \o (IF i = 0 THEN <<>> ELSE zeros) \o right
    IN IF /\ s # <<>>
          /\ (i = 0 => Len(left) = 8)
          /\ (i # 0 => Len(left) + Len(right) <= 7 /\ DoubleColon(From(s, i + 1)) = 0)
          /\ \A k \in DOMAIN left : IsHex(left[k]) /\ Len(left[k]) <= 4
          /\ \A k \in DOMAIN right : IsHex(right[k]) /\ Len(right[k]) <= 4
       THEN Parsed(Typed("IPv6Address", [k \in 1..8 |-> HexNum(groups[k])]))
       ELSE Invalid

\* The length of the run of zero groups that starts at group i.
ZeroRun(f, i) ==
    LET lens == {n \in 0..(9 - i) : \A k \in i..(i + n - 1) : f[k] = 0} IN
    CHOOSE n \in lens : \A o \in lens : o <= n

\* str(IPv6Address): lower case, no leading zeros, the first longest run of
\* two or more zero groups written "::".
DumpIPv6(f) ==
    LET best == CHOOSE i \in 1..8 :
                   /\ \A k \in 1..8 : ZeroRun(f, k) <= ZeroRun(f, i)
                   /\ \A k \in 1..(i - 1) : ZeroRun(f, k) < ZeroRun(f, i)
        run == ZeroRun(f, best)
        hex == [k \in 1..8 |-> InBase(f[k], 16)]
    IN IF run < 2 THEN Join(hex, <<":">>)
       ELSE Join(SubSeq(hex, 1, best - 1), <<":">>) \o <<":", ":">>
              \o Join(SubSeq(hex, best + run, 8), <<":">>)

\* TypeAdapter(UUID).validate_python(s): 32 hexadecimal digits, with
\* hyphens after the 8th, 12th, 16th and 20th digit or without any.
ParseUUID(s) ==
    LET hyphens == {9, 14, 19, 24}
        plain == IF Len(s) = 36 /\ \A i \in hyphens : s[i] = "-"
                 THEN SubSeq(s, 1, 8) \o SubSeq(s, 10, 13) \o SubSeq(s, 15, 18)
                        \o SubSeq(s, 20, 23) \o SubSeq(s, 25, 36)
                 ELSE s
    IN IF Len(plain) = 32 /\ IsHex(plain)
       THEN Parsed(Typed("UUID", [i \in 1..32 |-> HexVal(plain[i])]))
       ELSE Invalid

DumpUUID(f) ==
    LET hex == [i \in 1..32 |-> HexChars[f[i] + 1]] IN
    SubSeq(hex, 1, 8) \o <<"-">> \o SubSeq(hex, 9, 12) \o <<"-">> \o SubSeq(hex, 13, 16)
      \o <<"-">> \o SubSeq(hex, 17, 20) \o <<"-">> \o SubSeq(hex, 21, 32)

\* GENSON_STRING_TYPES (convert.py:17-25), in the order of the list.
GENSON_STRING_TYPES ==
    <<"datetime", "date", "time", "timedelta", "IPv4Address", "IPv6Address", "UUID">>

\* adapter.validate_python(input_string) for the adapter of a type.
validate_python(type, s) ==
    CASE type = "datetime" -> ParseDatetime(s)
      [] type = "date" -> ParseDate(s)
      [] type = "time" -> ParseTime(s)
      [] type = "timedelta" -> ParseTimedelta(s)
      [] type = "IPv4Address" -> ParseIPv4(s)
      [] type = "IPv6Address" -> ParseIPv6(s)
      [] type = "UUID" -> ParseUUID(s)

\* adapter.dump_python(parsed, mode="json"): the text of a parsed value.
dump_python(v) ==
    CASE v.kind = "datetime" ->
            DumpDateFields(SubSeq(v.f, 1, 3)) \o <<"T">> \o DumpTimeFields(SubSeq(v.f, 4, 9))
      [] v.kind = "date" -> DumpDateFields(v.f)
      [] v.kind = "time" -> DumpTimeFields(v.f)
      [] v.kind = "timedelta" -> DumpTimedelta(v.f)
      [] v.kind = "IPv4Address" -> DumpIPv4(v.f)
      [] v.kind = "IPv6Address" -> DumpIPv6(v.f)
      [] v.kind = "UUID" -> DumpUUID(v.f)

\* A conversion that takes the first type whose validation accepts the
\* string, without comparing its text with the input.
RECURSIVE ConvertFromFirstParse(_, _)
ConvertFromFirstParse(input_string, i) ==
    IF i > Len(GENSON_STRING_TYPES) THEN Str(input_string)
    ELSE LET r == validate_python(GENSON_STRING_TYPES[i], input_string) IN
         IF r.ok THEN r.v ELSE ConvertFromFirstParse(input_string, i + 1)

\* The loop of convert_value from the i-th type on (convert.py:39-46): a
\* ValidationError is suppressed, a value whose text is not the input is
\* passed over, and the input is returned when the list is exhausted.
RECURSIVE ConvertFrom(_, _)

\* One pass of the loop body for the result r of validate_python.
TryType(r, input_string, i) ==
    IF r.ok /\ dump_python(r.v) = input_string THEN r.v
    ELSE ConvertFrom(input_string, i + 1)

ConvertFrom(input_string, i) ==
    IF i > Len(GENSON_STRING_TYPES) THEN Str(input_string)
    ELSE TryType(validate_python(GENSON_STRING_TYPES[i], input_string), input_string, i)

convert_value(input_string) == ConvertFrom(input_string, 1)

\* A conversion that converts the strings directly under the top container
\* and passes nested containers through.
ConvertSingleValueFlat(value) ==
    IF value.kind = "str" THEN convert_value(value.chars) ELSE value

\* A container of the kind of input_data, with its keys, for the items.
SameContainer(input_data, items) ==
    IF input_data.kind = "dict" THEN DictOf(input_data.keys, items) ELSE ListOf(items)

RECURSIVE convert_single_value(_), ConvertInputData(_)

\* _convert_single_value (convert.py:49-62).
convert_single_value(value) ==
    IF value.kind = "str" THEN convert_value(value.chars)
    ELSE IF value.kind \in {"dict", "list"} THEN ConvertInputData(value)
    ELSE value

\* convert_input_data on a structure of values (convert.py:65-76): a new
\* dict with the keys of the input in their order, or a new list.
ConvertInputData(input_data) ==
    SameContainer(input_data,
                  [i \in DOMAIN input_data.items |-> convert_single_value(input_data.items[i])])

\* Texts the strings below are made of.
DayText == <<"2", "0", "1", "8", "-", "1", "1", "-", "1", "3">>

ClockText == <<"2", "0", ":", "2", "0", ":", "3", "9">>

UuidText ==
    <<"3", "e", "4", "6", "6", "6", "b", "f">> \o <<"-", "d", "5", "e", "5">>
      \o <<"-", "4", "a", "a", "7">> \o <<"-", "b", "8", "c", "e">>
      \o <<"-", "c", "e", "f", "e", "4", "1", "c", "7", "5", "6", "8", "a">>

UuidUpperText ==
    <<"3", "E", "4", "6", "6", "6", "B", "F">> \o <<"-", "D", "5", "E", "5">>
      \o <<"-", "4", "A", "A", "7">> \o <<"-", "B", "8", "C", "E">>
      \o <<"-", "C", "E", "F", "E", "4", "1", "C", "7", "5", "6", "8", "A">>

\* The strings given to convert_value: the cases of tests/test_convert.py
\* and strings close to them.
ConvStrings ==
    { DayText \o <<"T">> \o ClockText \o <<"+", "0", "8", ":", "0", "0">>,
      DayText \o <<"T">> \o ClockText \o <<"+", "0", "0", ":", "0", "0">>,
      DayText \o <<"T">> \o ClockText \o <<"Z">>,
      DayText \o <<"T">> \o ClockText,
      DayText \o <<" ">> \o ClockText,
      DayText \o <<"T">> \o <<"2", "0", ":", "2", "0">>,
      DayText \o <<"T">> \o ClockText \o <<".", "5">>,
      DayText \o <<"T">> \o ClockText \o <<".", "5", "0", "0", "0", "0", "0">>,
      DayText \o <<"T">> \o <<"0", "0", ":", "0", "0", ":", "0", "0">>,
      <<"2", "0", "1", "8", "-", "0", "2", "-", "3", "0">> \o <<"T">> \o ClockText,
      DayText, <<"2", "0", "1", "8", "-", "1", "3", "-", "1", "1">>,
      <<"2", "0", "2", "0", "-", "0", "2", "-", "2", "9">>,
      <<"2", "0", "1", "8", "-", "0", "2", "-", "2", "9">>,
      ClockText, <<"2", "0", ":", "2", "0">>, ClockText \o <<"Z">>,
      <<"2", "5", ":", "2", "0", ":", "3", "9">>,
      <<"P", "3", "D">>, <<"P", "T", "7", "2", "H">>, <<"P", "1", "W">>,
      <<"P", "T", "2", "M", "3", "S">>, <<"P", "1", "D", "T", "2", "H">>, <<"P", "3">>,
      <<"1", "9", "2", ".", "1", "6", "8", ".", "1", ".", "1">>,
      <<"1", "9", "2", ".", "1", "6", "8", ".", "0", "1", ".", "1">>,
      <<"1", "9", "2", ".", "1", "6", "8", ".", "1", ".", "2", "5", "6">>,
      <<"1", "9", "2", ".", "1", "6", "8", ".", "1">>,
      <<":", ":", "1">>,
      <<"0", ":", "0", ":", "0", ":", "0", ":", "0", ":", "0", ":", "0", ":", "1">>,
      <<"f", "e", "8", "0", ":", ":", "1">>, <<"F", "E", "8", "0", ":", ":", "1">>,
      <<":", ":">>, <<"1", ":", ":", "2", ":", ":", "3">>,
      UuidText, UuidUpperText, SelectSeq(UuidText, LAMBDA c : c # "-"),
      SubSeq(UuidText, 1, 35),
      <<"S", "t", "r", "i", "n", "g">>, <<"1", "2", "3">>, <<"1", "2", "3", ".", "4", "5">>,
      <<"0">>, <<"8", "6", "4", "0", "0">>, <<>> }

\* The leaves of the structures given to convert_input_data, the keys of
\* their dicts and the greatest number of entries of a container.
ConvLeaves == { Str(DayText), Str(<<"1", "2", "3">>), IntValue(123), NoneValue }

ConvKeys == {"key_1", "key_2"}

MaxItems == 2

SeqsUpTo(S, n) == UNION {[1..k -> S] : k \in 0..n}

\* The lists over a set of elements and the dicts with distinct keys.
Containers(elements, n) ==
    {ListOf(items) : items \in SeqsUpTo(elements, n)}
      \cup UNION {{DictOf(keys, items) : items \in [DOMAIN keys -> elements]} :
                  keys \in {ks \in SeqsUpTo(ConvKeys, n) :
                              \A i, j \in DOMAIN ks : ks[i] = ks[j] => i = j}}

\* Structures of two levels: the inner containers have one entry at most.
ConvStructures == Containers(ConvLeaves \cup Containers(ConvLeaves, 1), MaxItems)

ConvFrame ==
    UNCHANGED <<endpoint, customizer, clock, files, schemaFile, modelFile, loaded,
                debugFiles, pc, call, prune, gapi, cz, duo, race>>

\* convert_value(input_string).
ConvCallValue ==
    /\ conv.op = "none"
    /\ conv.arg.kind = "str"
    /\ conv' = [conv EXCEPT !.op = "convert_value",
                            !.result = <<convert_value(conv.arg.chars)>>]
    /\ ConvFrame

\* convert_input_data(input_data).
ConvCallInputData ==
    /\ conv.op = "none"
    /\ conv.arg.kind \in {"dict", "list"}
    /\ conv' = [conv EXCEPT !.op = "convert_input_data",
                            !.result = <<ConvertInputData(conv.arg)>>]
    /\ ConvFrame

ConvInit ==
    /\ conv \in {[NoConversion EXCEPT !.arg = a] :
                   a \in {Str(s) : s \in ConvStrings} \cup ConvStructures}
    /\ endpoint = ScalarInputs
    /\ customizer = <<>>
    /\ clock = 0
    /\ files = <<>>
    /\ schemaFile = <<>>
    /\ modelFile = BlankModel
    /\ loaded = LoadModel(BlankModel)
    /\ debugFiles = <<>>
    /\ pc = "idle"
    /\ call = NoCall
    /\ prune = NoPrune
    /\ gapi = NewGAPI
    /\ cz = NewCustomization
    /\ duo = NoDuo
    /\ race = NoRace

ConvNext == ConvCallValue \/ ConvCallInputData

ConvSpec == ConvInit /\ [][ConvNext]_vars

(***************************************************************************)
(* Properties of the conversion.                                           *)
(***************************************************************************)
\* A candidate type is accepted for a string when its validation succeeds
\* and the text of the value is the string.
Accepts(type, s) ==
    LET r == validate_python(type, s) IN r.ok /\ dump_python(r.v) = s

\* A plain number: digits, with a fraction or without.
IsNumeric(s) ==
    LET parts == Split(s, ".") IN
    Len(parts) \in {1, 2} /\ \A i \in DOMAIN parts : IsDigits(parts[i])

\* C31: convert_value(s) returns the value of the first type of the list
\* timestamp, date, time, duration, IPv4 address, IPv6 address, UUID whose
\* validation accepts s and gives a value whose text is exactly s; when no
\* type does, it returns s; a plain number such as "123" or "123.45" stays a
\* string.
C31_FirstAcceptedCandidateWins ==
    conv.op = "convert_value" =>
       LET s == conv.arg.chars
           r == conv.result[1]
           T == GENSON_STRING_TYPES
           accepted == {i \in DOMAIN T : Accepts(T[i], s)}
       IN /\ accepted # {} =>
                \E i \in accepted :
                   /\ \A j \in accepted : i <= j
                   /\ r = validate_python(T[i], s).v
                   /\ r.kind = T[i]
          /\ accepted = {} => r = Str(s)
          /\ IsNumeric(s) => r = Str(s)

\* "2018-11-13" is taken by the timestamp validation, whose text
\* "2018-11-13T00:00:00" is not the input, and converted to a date, the
\* second type of the list.
C31_Witness ==
    /\ conv.op = "convert_value"
    /\ conv.arg = Str(DayText)
    /\ validate_python("datetime", conv.arg.chars).ok
    /\ conv.result = <<Typed("date", <<2018, 11, 13>>)>>

\* out is the structure of the shape of in whose leaves are the converted
\* leaves of in.
RECURSIVE ConvertedShape(_, _)
ConvertedShape(in, out) ==
    IF in.kind = "str" THEN out = convert_value(in.chars)
    ELSE IF in.kind \in {"dict", "list"}
    THEN /\ out.kind = in.kind
         /\ out.keys = in.keys
         /\ Len(out.items) = Len(in.items)
         /\ \A i \in DOMAIN in.items : ConvertedShape(in.items[i], out.items[i])
    ELSE out = in

\* C32: convert_input_data returns a structure of the shape of its input,
\* with the same keys in the same order and the same number of elements in
\* the same order at every depth, in which every leaf string is replaced by
\* convert_value of it and every other scalar is the one of the input; the
\* input is left as it was.
C32_ConvertKeepsShape ==
    [][ (conv.op = "none" /\ conv'.op = "convert_input_data") =>
          /\ ConvertedShape(conv.arg, conv'.result[1])
          /\ conv'.arg = conv.arg ]_vars

\* A dict with a list under its first key and an integer under its second:
\* the date in the list is converted, the integer is the one given.
C32_Witness ==
    /\ conv.op = "convert_input_data"
    /\ conv.arg = DictOf(<<"key_1", "key_2">>,
                         <<ListOf(<<Str(DayText)>>), IntValue(123)>>)
    /\ conv.result[1].keys = <<"key_1", "key_2">>
    /\ conv.result[1].items[1] = ListOf(<<Typed("date", <<2018, 11, 13>>)>>)
    /\ conv.result[1].items[2] = IntValue(123)

(***************************************************************************)
(* Two model consumers in one process.  A consumer is bound to a model     *)
(* class (name) defined in a module file (module) of a package directory   *)
(* (dir); its files are found from these (gapi_client.py:87-120).  A path  *)
(* is a record: the directory, the subdirectory below it, the sample       *)
(* folder, and the file name as a stem, a clock reading (samples) and a    *)
(* suffix.  A file is a path with its data: the consumers whose model or   *)
(* sample it holds.                                                        *)
(***************************************************************************)
UpperChars ==
    <<"A", "B", "C", "D", "E", "F", "G", "H", "I", "J", "K", "L", "M",
      "N", "O", "P", "Q", "R", "S", "T", "U", "V", "W", "X", "Y", "Z">>

LowerChars ==
    <<"a", "b", "c", "d", "e", "f", "g", "h", "i", "j", "k", "l", "m",
      "n", "o", "p", "q", "r", "s", "t", "u", "v", "w", "x", "y", "z">>

IsUpper(c) == \E i \in DOMAIN UpperChars : UpperChars[i] = c

IsLower(c) == \E i \in DOMAIN LowerChars : LowerChars[i] = c

\* str.lower().
ToLower(s) ==
    [i \in DOMAIN s |->
        IF IsUpper(s[i]) THEN LowerChars[CHOOSE k \in DOMAIN UpperChars : UpperChars[k] = s[i]]
        ELSE s[i]]

RECURSIVE Concat(_)
Concat(parts) == IF parts = <<>> THEN <<>> ELSE Head(parts) \o Concat(Tail(parts))

\* re.sub(r"([a-z0-9])([A-Z])", r"\1_\2", s): an underscore between a lower
\* case letter or digit and the capital that follows it.
SplitAtCapitals(s) ==
    Concat([i \in DOMAIN s |->
               IF i > 1 /\ (IsLower(s[i - 1]) \/ s[i - 1] \in Digits) /\ IsUpper(s[i])
               THEN <<"_", s[i]>> ELSE <<s[i]>>])

\* re.sub(r"([A-Z]+)([A-Z][a-z])", r"\1_\2", s): an underscore before the
\* last capital of a run of capitals that a lower case letter follows.
SplitAfterAcronyms(s) ==
    Concat([i \in DOMAIN s |->
               IF /\ i > 1 /\ i < Len(s)
                  /\ IsUpper(s[i - 1]) /\ IsUpper(s[i]) /\ IsLower(s[i + 1])
               THEN <<"_", s[i]>> ELSE <<s[i]>>])

\* str.removesuffix(suffix).
RemoveSuffix(s, suffix) ==
    IF Len(s) >= Len(suffix) /\ SubSeq(s, Len(s) - Len(suffix) + 1, Len(s)) = suffix
    THEN SubSeq(s, 1, Len(s) - Len(suffix)) ELSE s

\* GAPIClient._to_folder_name (gapi_client.py:92-97).
to_folder_name(model_name) ==
    RemoveSuffix(ToLower(SplitAfterAcronyms(SplitAtCapitals(model_name))), <<"_", "m", "o", "d", "e", "l">>)

Path(dir, sub, folder, stem, stamp, ext) ==
    [dir |-> dir, sub |-> sub, folder |-> folder, stem |-> stem, stamp |-> stamp, ext |-> ext]

\* _get_model_path: the file of the module that defines the model class.
get_model_path(c) == Path(c.dir, "", <<>>, c.module, 0, "py")

\* _get_schema_path: the model path with the suffix .json.
get_schema_path(c) == [get_model_path(c) EXCEPT !.ext = "json"]

\* json_files_folder: <directory of the model>/_files/<folder name>.
json_files_folder(c) == [dir |-> c.dir, sub |-> "_files", folder |-> to_folder_name(c.name)]

\* The path of the sample saved at a clock reading (_save_new_json_file).
SamplePath(c, reading) ==
    Path(c.dir, "_files", to_folder_name(c.name), "", reading, "json")

\* The paths of the debug files (_save_debug_files).
DebugPath(c, stem) ==
    Path(c.dir, "_files/_temp", to_folder_name(c.name), stem, 0, "json")

\* json_files(): the files folder.glob("*.json") finds.
folder_files(fs, c) ==
    {f \in fs : /\ f.path.dir = c.dir /\ f.path.sub = "_files"
                /\ f.path.folder = to_folder_name(c.name) /\ f.path.ext = "json"}

Exists(fs, p) == \E f \in fs : f.path = p

\* Path.write_text and Path.unlink.
Write(fs, p, data) == {f \in fs : f.path # p} \cup {[path |-> p, data |-> data]}

Unlink(fs, p) == {f \in fs : f.path # p}

DataAt(fs, p) == UNION {f.data : f \in {g \in fs : g.path = p}}

\* The greatest number of calls made on the two consumers.
MaxOps == 3

\* The class names of the models, the package directories and the modules.
ModelNames == { <<"U", "s", "e", "r">>, <<"U", "s", "e", "r", "M", "o", "d", "e", "l">>, <<"H", "T", "T", "P", "R", "e", "s", "p", "o", "n", "s", "e">>, <<"H", "t", "t", "p", "R", "e", "s", "p", "o", "n", "s", "e">>, <<"O", "r", "d", "e", "r">> }

Consumer(dir, module, name) == [dir |-> dir, module |-> module, name |-> name]

\* Two consumers whose models are defined in different module files.
ConsumerPairs ==
    { <<Consumer("pkg", "first", n1), Consumer(d, m, n2)>> :
        n1 \in ModelNames, n2 \in ModelNames,
        d \in {"pkg", "other"}, m \in {"first", "second"} } \ 
    { <<Consumer("pkg", "first", n1), Consumer("pkg", "first", n2)>> :
        n1 \in ModelNames, n2 \in ModelNames }

DuoFrame ==
    UNCHANGED <<endpoint, customizer, clock, files, schemaFile, modelFile, loaded,
                debugFiles, pc, call, prune, gapi, cz, conv, race>>

Access(i, op, read, written, deleted) ==
    [who |-> i, op |-> op, read |-> read, written |-> written, deleted |-> deleted]

Paths(fileset) == {f.path : f \in fileset}

\* parse(data) by consumer i when the validation fails: the sample is saved
\* (_save_new_json_file) and _update_model merges the schema file, when it
\* exists, with the new sample, writes the schema file and the model file
\* and reloads the module of the model.
DuoParse(i) ==
    LET c == duo.consumers[i]
        sample == SamplePath(c, duo.clock)
        schema == get_schema_path(c)
        model == get_model_path(c)
        merged == DataAt(duo.fs, schema) \cup {i}
    IN /\ duo.clock < MaxOps
       /\ duo' = [duo EXCEPT
                    !.fs = Write(Write(Write(@, sample, {i}), schema, merged), model, merged),
                    !.clock = @ + 1,
                    !.acc = Access(i, "parse",
                                   (IF Exists(duo.fs, schema) THEN {schema} ELSE {})
                                     \cup {sample, model},
                                   {sample, schema, model}, {})]
       /\ DuoFrame

\* parse(data) by consumer i when the validation succeeds and the dump
\* differs from the data: _save_debug_files saves the data as a sample and
\* writes original.json and parsed.json.
DuoParseMismatch(i) ==
    LET c == duo.consumers[i]
        sample == SamplePath(c, duo.clock)
        original == DebugPath(c, "original")
        parsed == DebugPath(c, "parsed")
    IN /\ duo.clock < MaxOps
       /\ duo' = [duo EXCEPT
                    !.fs = Write(Write(Write(@, sample, {i}), original, {i}), parsed, {i}),
                    !.clock = @ + 1,
                    !.acc = Access(i, "parse", {}, {sample, original, parsed}, {})]
       /\ DuoFrame

\* write_blank_model on a file system: the model file is overwritten and
\* the schema file deleted when it exists.
BlankFiles(fs, c, i) == Unlink(Write(fs, get_model_path(c), {i}), get_schema_path(c))

\* rebuild_model() by consumer i: with samples, every file of the folder is
\* merged and the schema file and the model file are written; without,
\* write_blank_model; then the module is reloaded.
DuoRebuildModel(i) ==
    LET c == duo.consumers[i]
        samples == folder_files(duo.fs, c)
        schema == get_schema_path(c)
        model == get_model_path(c)
        merged == UNION {f.data : f \in samples}
    IN /\ duo.clock < MaxOps
       /\ duo' = [duo EXCEPT
                    !.fs = IF samples # {}
                           THEN Write(Write(@, schema, merged), model, merged)
                           ELSE BlankFiles(@, c, i),
                    !.clock = @ + 1,
                    !.acc = Access(i, "rebuild_model", Paths(samples) \cup {model},
                                   IF samples # {} THEN {schema, model} ELSE {model},
                                   IF samples = {} /\ Exists(duo.fs, schema)
                                   THEN {schema} ELSE {})]
       /\ DuoFrame

\* write_blank_model() by consumer i.
DuoWriteBlankModel(i) ==
    LET c == duo.consumers[i]
        schema == get_schema_path(c)
        model == get_model_path(c)
    IN /\ duo.clock < MaxOps
       /\ duo' = [duo EXCEPT
                    !.fs = BlankFiles(@, c, i),
                    !.clock = @ + 1,
                    !.acc = Access(i, "write_blank_model", {model}, {model},
                                   IF Exists(duo.fs, schema) THEN {schema} ELSE {})]
       /\ DuoFrame

\* remove_redundant_json_files() by consumer i: every file of the folder is
\* read, and, newest first, a file is deleted when the files left give the
\* same merge without it: here, when an older file holds the same data.
DuoPrune(i) ==
    LET c == duo.consumers[i]
        samples == folder_files(duo.fs, c)
        redundant == {f \in samples :
                        \E g \in samples : g.data = f.data /\ g.path.stamp < f.path.stamp}
    IN /\ duo.clock < MaxOps
       /\ duo' = [duo EXCEPT
                    !.fs = @ \ redundant,
                    !.clock = @ + 1,
                    !.acc = Access(i, "remove_redundant_json_files",
                                   Paths(samples), {}, Paths(redundant))]
       /\ DuoFrame

\* Each consumer has the module file of its model.
DuoInit ==
    /\ \E pair \in ConsumerPairs :
          duo = [NoDuo EXCEPT
                   !.consumers = pair,
                   !.fs = {[path |-> get_model_path(pair[i]), data |-> {i}] : i \in 1..2}]
    /\ endpoint = ScalarInputs
    /\ customizer = <<>>
    /\ clock = 0
    /\ files = <<>>
    /\ schemaFile = <<>>
    /\ modelFile = BlankModel
    /\ loaded = LoadModel(BlankModel)
    /\ debugFiles = <<>>
    /\ pc = "idle"
    /\ call = NoCall
    /\ prune = NoPrune
    /\ gapi = NewGAPI
    /\ cz = NewCustomization
    /\ conv = NoConversion
    /\ race = NoRace

DuoNext ==
    \E i \in 1..2 :
       \/ DuoParse(i)
       \/ DuoParseMismatch(i)
       \/ DuoRebuildModel(i)
       \/ DuoWriteBlankModel(i)
       \/ DuoPrune(i)

DuoSpec == DuoInit /\ [][DuoNext]_vars

\* The files of a consumer: its model file, its schema file and the files
\* of its sample folder.
IsFileOf(p, c) ==
    \/ p = get_model_path(c)
    \/ p = get_schema_path(c)
    \/ /\ p.dir = c.dir /\ p.sub = "_files" /\ p.folder = to_folder_name(c.name)

\* C33: two consumers bound to different models have different sample
\* folders, and no call on one of them reads, writes or deletes the model
\* file, the schema file or a sample file of the other.
C33_ConsumersIndependent ==
    [][ \A i \in 1..2 :
          (duo'.clock # duo.clock /\ duo'.acc.who = i) =>
             LET other == duo.consumers[3 - i]
                 touched == duo'.acc.read \cup duo'.acc.written \cup duo'.acc.deleted
             IN /\ json_files_folder(duo.consumers[i]) # json_files_folder(other)
                /\ \A p \in touched : ~IsFileOf(p, other) ]_vars

(***************************************************************************)
(* Two callers of parse on one consumer at the same time.  The code takes  *)
(* no lock (gapi_client.py has none), so the steps of the two calls        *)
(* interleave at the file operations and at the reload: each step below    *)
(* is one of them.  The files and the loaded model are those of the        *)
(* consumer; the locals of each call are in race.                          *)
(***************************************************************************)
\* The payloads the callers pass: none of them is changed by validation.
RaceInputs == { Obj("i", "-"), Obj("s", "-"), Obj("-", "i") }

RaceFrame == UNCHANGED <<endpoint, customizer, debugFiles, pc, call, prune, gapi, cz, conv,
                         duo>>

\* parse(data) up to the end of the first validation (gapi_client.py:160-161
\* and 242-247).
RaceCall(t, d) ==
    /\ race[t].at = "idle"
    /\ LET v == model_validate(loaded, d) IN
       race' = [race EXCEPT ![t] = [@ EXCEPT !.data = d,
                                             !.at = IF v.ok THEN "done" ELSE "save",
                                             !.out = IF v.ok THEN "returned" ELSE "running"]]
    /\ UNCHANGED <<clock, files, schemaFile, modelFile, loaded>>
    /\ RaceFrame

\* new_file = cls._save_new_json_file(data)   (gapi_client.py:248)
RaceSave(t) ==
    /\ race[t].at = "save"
    /\ files' = save_new_json_file(files, clock, race[t].data)
    /\ race' = [race EXCEPT ![t] = [@ EXCEPT !.new_file = <<clock>>, !.at = "update"]]
    /\ UNCHANGED <<clock, schemaFile, modelFile, loaded>>
    /\ RaceFrame

\* gapi = GAPI(...); gapi.add_schema_from_file(schema path) when the file
\* exists   (gapi_client.py:273-275)
RaceAddSchema(t) ==
    /\ race[t].at = "update"
    /\ race' = [race EXCEPT ![t] =
                  [@ EXCEPT !.builder = IF schemaFile # <<>>
                                        THEN add_schema_from_file(EmptyBuilder, schemaFile[1])
                                        ELSE EmptyBuilder,
                            !.at = "seeded"]]
    /\ UNCHANGED <<clock, files, schemaFile, modelFile, loaded>>
    /\ RaceFrame

\* gapi.add_object_from_file(new_file_path)   (gapi_client.py:276)
RaceAddObject(t) ==
    /\ race[t].at = "seeded"
    /\ race' = [race EXCEPT ![t] =
                  [@ EXCEPT !.builder = add_object_from_file(@, files[race[t].new_file[1]]),
                            !.at = "merged"]]
    /\ UNCHANGED <<clock, files, schemaFile, modelFile, loaded>>
    /\ RaceFrame

\* gapi.write_json_schema_to_file(schema path)   (gapi_client.py:277)
RaceWriteSchema(t) ==
    /\ race[t].at = "merged"
    /\ schemaFile' = <<SchemaText(ToSchema(race[t].builder))>>
    /\ race' = [race EXCEPT ![t] = [@ EXCEPT !.at = "schema written"]]
    /\ UNCHANGED <<clock, files, modelFile, loaded>>
    /\ RaceFrame

\* gapi.write_pydantic_model_to_file(model path)   (gapi_client.py:278)
RaceWriteModel(t) ==
    /\ race[t].at = "schema written"
    /\ LET m == get_pydantic_model_content(ToSchema(race[t].builder), customizer, TRUE) IN
       modelFile' = m.content[1]
    /\ race' = [race EXCEPT ![t] = [@ EXCEPT !.at = "model written"]]
    /\ UNCHANGED <<clock, files, schemaFile, loaded>>
    /\ RaceFrame

\* cls._reload_model()   (gapi_client.py:279)
RaceReload(t) ==
    /\ race[t].at = "model written"
    /\ loaded' = reload_model(modelFile)
    /\ race' = [race EXCEPT ![t] = [@ EXCEPT !.at = "retry"]]
    /\ UNCHANGED <<clock, files, schemaFile, modelFile>>
    /\ RaceFrame

\* The second model_validate (gapi_client.py:253) and the end of the call.
RaceRetry(t) ==
    /\ race[t].at = "retry"
    /\ LET v == model_validate(loaded, race[t].data) IN
       race' = [race EXCEPT ![t] = [@ EXCEPT !.at = "done",
                                             !.out = IF v.ok THEN "returned"
                                                     ELSE "ValidationError"]]
    /\ UNCHANGED <<clock, files, schemaFile, modelFile, loaded>>
    /\ RaceFrame

\* A consumer with the blank model and two callers about to call parse.
RaceInit ==
    /\ endpoint = ScalarInputs
    /\ customizer = <<>>
    /\ clock = 0
    /\ files = <<>>
    /\ schemaFile = <<>>
    /\ modelFile = BlankModel
    /\ loaded = LoadModel(BlankModel)
    /\ debugFiles = <<>>
    /\ pc = "idle"
    /\ call = NoCall
    /\ prune = NoPrune
    /\ gapi = NewGAPI
    /\ cz = NewCustomization
    /\ conv = NoConversion
    /\ duo = NoDuo
    /\ race = NoRace

RaceNext ==
    \/ Tick
    \/ \E t \in Threads :
          \/ \E d \in RaceInputs : RaceCall(t, d)
          \/ RaceSave(t)
          \/ RaceAddSchema(t)
          \/ RaceAddObject(t)
          \/ RaceWriteSchema(t)
          \/ RaceWriteModel(t)
          \/ RaceReload(t)
          \/ RaceRetry(t)

RaceSpec == RaceInit /\ [][RaceNext]_vars

\* A caller is in its rebuild from the reading of the schema file to the
\* reload of the model.
InRebuild(t) == race[t].at \in {"seeded", "merged", "schema written", "model written"}

\* C34: two calls of parse on one consumer exclude each other: the rebuilds
\* of the two callers are never under way at the same time, and when both
\* calls have rebuilt the model and ended, the schema file accepts the
\* sample of each of them.
C34_RebuildsExclude ==
    /\ ~(InRebuild(1) /\ InRebuild(2))
    /\ (\A t \in Threads : race[t].at = "done" /\ race[t].new_file # <<>>) =>
          \A t \in Threads : SchemaAccepts(schemaFile[1].doc, race[t].data)

(***************************************************************************)
(* Properties of the repair loop over sequences of calls.                  *)
(***************************************************************************)
\* C35: a parse call never narrows a loaded model that was generated from
\* samples: every payload the loaded model accepts before a step of the
\* call is accepted after it, the step that rebuilds and reloads the model
\* included.  (The blank model accepts only the empty object.)
C35_AcceptedSetGrows ==
    [][ (call.op = "parse" /\ pc # "idle" /\ pc # "done"
           /\ loaded # LoadModel(BlankModel)) =>
          \A d \in Inputs :
             model_validate(loaded, d).ok => model_validate(loaded', d).ok ]_vars

\* C36: between calls, a schema file that exists is the merge of the sample
\* files of the directory: rebuild_model would write the same schema.
C36_SchemaIsMergeOfSamples ==
    (pc = "idle" /\ schemaFile # <<>>) =>
        schemaFile[1].doc = ToSchema(add_objects_from_folder(EmptyBuilder, files))

\* C37: when the rebuild triggered by parse fails after the sample was stored
\* (a customization error or a tooling error during the generation), the
\* model file is the model generated from the schema file on disk and the
\* loaded definition is the one of the model file.
C37_FailedRebuildConsistent ==
    (pc = "done" /\ call.op = "parse" /\ call.rebuilds = 1 /\ call.reloads = 0) =>
        /\ schemaFile # <<>>
        /\ LET m == get_pydantic_model_content(schemaFile[1].doc, customizer, TRUE)
           IN m.err = "" /\ modelFile = m.content[1]
        /\ loaded = LoadModel(modelFile)

\* C38: parse with update_model disabled validates the data against the loaded
\* model once and ends: it returns the instance or raises the validation
\* error, and it stores no sample or debug file, writes neither the schema file
\* nor the model file, does not reload the model and never reaches the
\* round-trip comparison.
C38_ValidateOnly ==
    [][ /\ (call'.op = "parse" /\ ~call'.update_model /\ call.op = "none") =>
              /\ pc' = "done"
              /\ call'.validations = 1 /\ call'.rebuilds = 0 /\ call'.reloads = 0
              /\ call'.saved = <<>> /\ call'.new_file = <<>>
              /\ LET v == model_validate(loaded, call'.data) IN
                 IF v.ok THEN call'.out = "returned" /\ call'.parsed = v
                 ELSE call'.out = "ValidationError"
        /\ (call.op = "parse" /\ ~call.update_model) =>
              pc = "done" /\ pc' \in {"done", "idle"}
        /\ ((call.op = "parse" /\ ~call.update_model)
              \/ (call'.op = "parse" /\ ~call'.update_model)) =>
              UNCHANGED <<files, schemaFile, modelFile, loaded, debugFiles>> ]_vars

\* A call with update_model disabled was refused by a generated model, and
\* nothing was stored for it.
C38_Witness ==
    /\ pc = "done" /\ call.op = "parse" /\ ~call.update_model
    /\ call.out = "ValidationError"
    /\ schemaFile # <<>> /\ loaded # LoadModel(BlankModel)

(***************************************************************************)
(* Frame and termination of remove_redundant_json_files.                   *)
(***************************************************************************)
\* C39: from its start to its return remove_redundant_json_files leaves the
\* schema file, the model file, the loaded model definition and the debug
\* files as they are, and changes the sample directory by deleting files
\* only: no file is created and no file left has another content.
C39_PruneOnlyDeletes ==
    [][ (call.op = "remove_redundant_json_files"
           \/ call'.op = "remove_redundant_json_files") =>
          /\ UNCHANGED <<schemaFile, modelFile, loaded, debugFiles>>
          /\ DOMAIN files' \subseteq DOMAIN files
          /\ \A n \in DOMAIN files' : files'[n] = files[n] ]_vars

\* The call is over and deleted a sample of a consumer that has a schema file
\* and a generated model.
C39_Witness ==
    /\ pc = "done" /\ call.op = "remove_redundant_json_files"
    /\ Cardinality(DOMAIN files) < Cardinality(DOMAIN prune.atFiles)
    /\ schemaFile # <<>> /\ modelFile # BlankModel

\* The directories of the termination check: up to MaxLoop files named
\* 0, 1, 2, ..., each with one of three contents, so that a directory holds
\* copies, files that are redundant beside the others and files that are not.
MaxLoop == 3

LoopInputs == { Obj("i", "-"), Obj("-", "i"), Obj("i", "i") }

PruneFairInit ==
    /\ PruneInit
    /\ DOMAIN files = 0..(Cardinality(DOMAIN files) - 1)
    /\ Cardinality(DOMAIN files) <= MaxLoop
    /\ \A n \in DOMAIN files : JsonLoads(files[n]) \in LoopInputs

\* A running loop goes on: an iteration that can run does run, and the method
\* returns when the loop condition fails.
PruneFairSpec ==
    PruneFairInit /\ [][PruneNext]_vars /\ WF_vars(PruneStep) /\ WF_vars(PruneEnd)

\* len(input_files) - i: the iterations the loop still has to run.
Remaining == Len(prune.input_files) - prune.i

\* C40: remove_redundant_json_files terminates: an iteration either deletes
\* one file and removes it from the working list or advances the index, never
\* both, so len(input_files) - i falls by one per iteration, and with n files
\* at the start the loop is over after exactly n iterations.
C40_PruneTerminates ==
    /\ [][ (pc = "prune" /\ prune' # prune) =>
             /\ prune'.iterations = prune.iterations + 1
             /\ Remaining' = Remaining - 1
             /\ \/ /\ Len(prune'.input_files) = Len(prune.input_files) - 1
                   /\ Cardinality(DOMAIN files') = Cardinality(DOMAIN files) - 1
                   /\ prune'.i = prune.i
                \/ /\ prune'.input_files = prune.input_files
                   /\ files' = files
                   /\ prune'.i = prune.i + 1 ]_vars
    /\ [](pc = "prune" =>
            /\ Remaining >= 0
            /\ prune.iterations + Remaining = Cardinality(DOMAIN prune.atFiles))
    /\ []((pc = "done" /\ call.op = "remove_redundant_json_files") =>
            prune.iterations = Cardinality(DOMAIN prune.atFiles))
    /\ (pc = "prune" ~> pc = "done")

\* The call over three files is over after three iterations, of which some
\* deleted a file and some advanced the index.
C40_Witness ==
    /\ pc = "done" /\ call.op = "remove_redundant_json_files"
    /\ Cardinality(DOMAIN prune.atFiles) = 3
    /\ prune.iterations = 3
    /\ prune.i >= 1 /\ prune.i < 3

====
